---- MODULE Spec2Model ----
(***************************************************************************)
(* Verification model of omept/trading-engine.                             *)
(*                                                                         *)
(* Part 1: OrderManager.Submit (pkg/engine order manager): the idempotency *)
(*         map, the retry loop with exponential backoff, persistence.      *)
(* Part 2: Engine.Start / Engine.Stop (pkg/engine/engine.go): candle       *)
(*         dispatch workers, cancellation and the wait group.              *)
(* Part 3: the candle feed of the polling adapters (pkg/exchange).         *)
(* Part 4: the Backtester (pkg/backtest): simulateFill, Submit, Run.       *)
(* Part 5: Backtester.Run over the mock exchange (pkg/backtest).           *)
(* Part 6: the two execution backends, OrderManager and Backtester, given  *)
(*         the same order intents.                                         *)
(* Part 7: FixedPercentRisk.Size (pkg/engine/risk.go).                     *)
(* Part 8: the strategies EMACrossover and MeanReversion (pkg/strategy).   *)
(* Part 9: OrderManager.Submit over MockExchange.PlaceOrder (pkg/exchange).*)
(* Part 10: OrderManager.Submit over BinanceAdapter.PlaceOrder and the     *)
(*         adapter mutex (pkg/exchange/binance.go).                        *)
(***************************************************************************)
EXTENDS Integers, Sequences, FiniteSets, TLC

(***************************************************************************)
(* Bounds of the model.                                                    *)
(***************************************************************************)
\* number of Submit invocations explored (numbered in order of entry)
NumCalls == 2
\* number of strategies registered with the engine
NumStrategies == 2
\* number of candles a subscription's generator produces before closing
MaxCandles == 1
\* the OnCandle calls of a worker are counted up to this number
MaxGot == 2
\* capacity of a polling adapter's candle channel (make(chan engine.Candle, 1024),
\* scaled down)
ChanCap == 2
\* largest number of candles one poll returns (limit=500 / limit=200, scaled down)
PollLimit == 2
\* largest number of candles given to a Backtester
MaxBtCandles == 2
\* number of direct simulateFill applications explored
MaxFills == 3
\* number of candles the mock exchange's demo generator sends (200 in the code)
MaxGenerated == 2
\* number of order intents given to both execution backends
MaxIntents == 2
\* number of candles one strategy instance is given
MaxSeries == 7
\* number of Submit calls made on the OrderManager over the mock exchange
MaxMockSubmits == 2
\* number of Submit calls made on the OrderManager over the Binance adapter
MaxBinanceSubmits == 2
\* shortP and longP of the EMA crossover (9 and 21 in main, scaled down)
ShortP == 1
LongP == 2
\* window of the mean reversion (20 in main, scaled down)
Window == 6

(***************************************************************************)
(* Program constants.                                                      *)
(***************************************************************************)
\* for i := 0; i < 5; i++
MaxAttempts == 5
\* wait := 100 * time.Millisecond
InitialWaitMs == 100
\* math.Floor(qty*1e8) / 1e8
QtyScale == 100000000
\* k of the mean reversion: NewMeanReversion(mrSymbol, 20, 2.0, om, risk)
KSd == 2

Calls == 1..NumCalls

(***************************************************************************)
(* Orders (engine.Order).  Quantity is counted in units of 10^-7 so that   *)
(* the "%f" formatting of the idempotency key (6 decimals) is a real       *)
(* conversion: 10 and 12 (0.0000010 and 0.0000012) print the same.         *)
(***************************************************************************)
ZeroOrder ==
  [ID |-> <<>>, Symbol |-> "", Side |-> "", Type |-> "", Price |-> 0,
   FilledPrice |-> 0, Quantity |-> 0, Filled |-> FALSE]

\* the order literals built by the strategies: Symbol, Side, Type, Quantity set
Intent(sym, side, qty) ==
  [ZeroOrder EXCEPT !.Symbol = sym, !.Side = side, !.Type = "MARKET", !.Quantity = qty]

Intents ==
  { Intent("BTCUSD", "BUY", 10), Intent("BTCUSD", "BUY", 12), Intent("BTCUSD", "SELL", 10) }

\* the id an exchange adapter assigns to the order placed by call c: every
\* placement gets an id of its own
OrderID(c) == <<"ord", c>>

\* the error the adapter reports for the n-th PlaceOrder invocation of call c:
\* every failure is an error value of its own
AdapterErr(c, n) == <<"err", c, n>>

\* fmt "%f": the quantity rounded to 6 decimals (no quantity used is a tie)
FmtF(q) == (q + 5) \div 10

\* key := fmt.Sprintf("%s:%s:%f:%s", o.Symbol, o.Side, o.Quantity, o.Type)
Key(o) == <<o.Symbol, o.Side, FmtF(o.Quantity), o.Type>>

VARIABLES
  pc,         \* position of each Submit invocation
  ord,        \* its argument o
  i,          \* loop counter of the retry loop
  wait,       \* current backoff wait, in ms
  lastErr,    \* lastErr
  r,          \* the order returned by the adapter
  ret,        \* the (Order, error) returned by Submit
  pending,    \* om.pending: key -> order id
  dbOrders,   \* table orders of the store (primary key id)
  dbTrades,   \* table trades of the store (primary key id)
  placed,     \* placements that took effect on the exchange
  placeCalls, \* number of PlaceOrder invocations made by each call
  sleeps,     \* the durations each call slept, in order
  saveLog,    \* the persistence calls each call completed, in order
  prior       \* results returned for the same key before the call began

omVars == <<pc, ord, i, wait, lastErr, r, ret, pending, dbOrders, dbTrades,
            placed, placeCalls, sleeps, saveLog, prior>>

VARIABLES
  ePc,        \* position of each Engine.Start invocation
  sIdx,       \* its index in the loop over e.strategies
  waitCtx,    \* the context whose Done() its final receive blocks on
  eCtx,       \* e.ctx: 0 is nil, k is the context made by Start k
  eCancel,    \* e.cancel: 0 is nil, k cancels the context made by Start k
  ctxDone,    \* whether the context made by Start k is cancelled
  parentDone, \* whether the context passed to Start k is cancelled
  eLock,      \* e.lock: 0 is free, k is held by Start k
  wg,         \* e.wg counter
  eStatus,    \* e.status
  wk,         \* state of the dispatch worker of Start k for strategy s
  subCtx,     \* the context given to SubscribeCandles (0: no subscription)
  ch,         \* the candles buffered in the subscription channel
  chClosed,   \* whether the channel is closed
  produced,   \* number of candles the generator has sent
  stPc,       \* position of each Engine.Stop invocation
  stopSaw,    \* the Start goroutines that existed when the Stop was called
  onStart,    \* number of OnStart calls per strategy
  onStop,     \* number of OnStop calls per strategy
  got         \* number of OnCandle calls made by each worker (counted up to MaxGot)

engVars == <<ePc, sIdx, waitCtx, eCtx, eCancel, ctxDone, parentDone, eLock, wg,
             eStatus, wk, subCtx, ch, chClosed, produced, stPc, stopSaw,
             onStart, onStop, got>>

VARIABLES
  fPc,        \* position of the polling goroutine of SubscribeCandles, per feed
  fLeft,      \* candles of the current poll it still has to send (their times)
  fBuf,       \* the candles buffered in its channel (their times)
  fCtxDone,   \* whether the context given to SubscribeCandles is cancelled
  fWk,        \* state of the dispatch worker that reads the channel
  fSeen       \* times of the last two candles handed to the strategy's OnCandle

feedVars == <<fPc, fLeft, fBuf, fCtxDone, fWk, fSeen>>

VARIABLES
  btPc,       \* position of the Backtester: not built, built, in Run's loop, ...
  btCandles,  \* b.candles
  btIdx,      \* index of the candle the loop of Run is at
  btLedger,   \* b.balance and b.position
  btEquity,   \* equityCurve of Run
  btStats,    \* the stats Run returned
  btFills,    \* every simulateFill so far: candle index, order, ledger before/after,
              \* whether SaveOrder and SaveTrade succeeded
  btClock,    \* time.Now() of the last call that read the clock, in ms
  btRunID,    \* b.runID
  btDbOrders, \* table orders of the backtester's store
  btDbTrades, \* table trades of the backtester's store
  btDbRuns,   \* table runs of the backtester's store
  btCalls     \* the calls Run made on the strategy, in order

btVars == <<btPc, btCandles, btIdx, btLedger, btEquity, btStats, btFills,
            btClock, btRunID, btDbOrders, btDbTrades, btDbRuns, btCalls>>

VARIABLES
  rpPc,       \* position of Run over the mock exchange: not built, push, recv, ...
  rpCandles,  \* b.candles
  rpIdx,      \* index of the candle the loop of Run is at
  rpFeed,     \* the channel m.feeds[symbol] that SubscribeCandles made
  rpGen,      \* i of the generator goroutine of SubscribeCandles; -1: not started
  rpCalls,    \* the calls made on the strategies, in order
  rpUSD,      \* m.balances["USD"] of the mock exchange
  rpEquity    \* equityCurve of Run

rpVars == <<rpPc, rpCandles, rpIdx, rpFeed, rpGen, rpCalls, rpUSD, rpEquity>>

VARIABLES
  cmpPending, \* om.pending of an OrderManager given the intents the Backtester gets
  cmpLive     \* what that OrderManager's Submit returned and whether it placed

cmpVars == <<cmpPending, cmpLive>>

VARIABLES
  rkCall      \* the last call of FixedPercentRisk.Size: price, balance, result

riskVars == <<rkCall>>

VARIABLES
  stKind,       \* which strategy was constructed: "", "EMA" or "MeanRev"
  stPrices,     \* its prices
  stAccountUSD, \* its accountUSD
  stLog         \* per OnCandle call: the close, the order given to Submit (if
                \* any), whether Submit returned an error, and the sides of
                \* all the Submit calls the call made

stratVars == <<stKind, stPrices, stAccountUSD, stLog>>

VARIABLES
  mxCall,     \* the Submit in progress on the OrderManager over the mock
              \* exchange: position, order, i, wait, lastErr, attempts, sleeps
  mxBalances, \* m.balances
  mxOrders,   \* m.orders
  mxPending,  \* om.pending
  mxClock,    \* time.Now() of the last PlaceOrder, in ms
  mxLog       \* the Submit calls that returned

mockVars == <<mxCall, mxBalances, mxOrders, mxPending, mxClock, mxLog>>

VARIABLES
  bnMt,       \* b.mt of the BinanceAdapter: TRUE while locked
  bnCall,     \* the Submit in progress on the OrderManager over the adapter:
              \* position, order, i, wait, lastErr, attempts, sleeps
  bnPending,  \* om.pending
  bnLog       \* the Submit calls that returned

binanceVars == <<bnMt, bnCall, bnPending, bnLog>>

otherVars == <<rpVars, cmpVars, riskVars, stratVars, mockVars, binanceVars>>

vars == <<omVars, engVars, feedVars, btVars, rpVars, cmpVars, riskVars, stratVars,
          mockVars, binanceVars>>

\* what the actions of one part leave alone
notOM == <<engVars, feedVars, btVars, otherVars>>
notEngine == <<omVars, feedVars, btVars, otherVars>>
notFeed == <<omVars, engVars, btVars, otherVars>>
notBt == <<omVars, engVars, feedVars, otherVars>>
notRp == <<omVars, engVars, feedVars, btVars, cmpVars, riskVars, stratVars, mockVars,
            binanceVars>>
notCmp == <<omVars, engVars, feedVars, rpVars, riskVars, stratVars, mockVars,
            binanceVars>>
notRisk == <<omVars, engVars, feedVars, btVars, rpVars, cmpVars, stratVars, mockVars,
            binanceVars>>
notStrat == <<omVars, engVars, feedVars, btVars, rpVars, cmpVars, riskVars, mockVars,
            binanceVars>>
notMock == <<omVars, engVars, feedVars, btVars, rpVars, cmpVars, riskVars, stratVars,
            binanceVars>>
notBinance == <<omVars, engVars, feedVars, btVars, rpVars, cmpVars, riskVars, stratVars,
               mockVars>>

NoRet == [order |-> ZeroOrder, err |-> <<"pending">>]

InitOM ==
  /\ pc = [c \in Calls |-> "idle"]
  /\ ord = [c \in Calls |-> ZeroOrder]
  /\ i = [c \in Calls |-> 0]
  /\ wait = [c \in Calls |-> 0]
  /\ lastErr = [c \in Calls |-> <<"nil">>]
  /\ r = [c \in Calls |-> ZeroOrder]
  /\ ret = [c \in Calls |-> NoRet]
  /\ pending = << >>
  /\ dbOrders = {}
  /\ dbTrades = {}
  /\ placed = {}
  /\ placeCalls = [c \in Calls |-> 0]
  /\ sleeps = [c \in Calls |-> << >>]
  /\ saveLog = [c \in Calls |-> << >>]
  /\ prior = [c \in Calls |-> {}]

\* om.pending[key] = id
MapPut(m, k, v) == [x \in (DOMAIN m) \cup {k} |-> IF x = k THEN v ELSE m[x]]

\* INSERT OR REPLACE INTO t ... (primary key id)
Upsert(t, rec) == {x \in t : x.id # rec.id} \cup {rec}

\* calls are numbered in the order they enter Submit
NextCall(c) == /\ pc[c] = "idle"
               /\ \A d \in Calls : d < c => pc[d] # "idle"

\* what the calls that already returned gave for key k
Returned(k) ==
  { [id |-> ret[d].order.ID, err |-> ret[d].err] :
      d \in {e \in Calls : pc[e] = "done" /\ Key(ord[e]) = k} }

(***************************************************************************)
(* OrderManager.Submit, lines 24-33: key, locked lookup, loop set-up.      *)
(***************************************************************************)
SubmitLookup(c, o) ==
  /\ NextCall(c)
  /\ ord' = [ord EXCEPT ![c] = o]
  /\ prior' = [prior EXCEPT ![c] = Returned(Key(o))]
  /\ IF Key(o) \in DOMAIN pending
       THEN /\ ret' = [ret EXCEPT ![c] =
                        [order |-> [ZeroOrder EXCEPT !.ID = pending[Key(o)]], err |-> <<"nil">>]]
            /\ pc' = [pc EXCEPT ![c] = "done"]
            /\ UNCHANGED <<i, wait, lastErr>>
       ELSE /\ pc' = [pc EXCEPT ![c] = "place"]
            /\ i' = [i EXCEPT ![c] = 0]
            /\ wait' = [wait EXCEPT ![c] = InitialWaitMs]
            /\ lastErr' = [lastErr EXCEPT ![c] = <<"nil">>]
            /\ UNCHANGED ret
  /\ UNCHANGED <<r, pending, dbOrders, dbTrades, placed, placeCalls, sleeps, saveLog>>
  /\ UNCHANGED notOM

\* Submit as a strategy worker calls it, concurrently with other calls
Submit(c) == \E o \in Intents : SubmitLookup(c, o)

\* Submit called only when no other call is in progress
SubmitSeq(c) ==
  /\ \A d \in Calls : pc[d] \in {"idle", "done"}
  /\ \E o \in Intents : SubmitLookup(c, o)

(***************************************************************************)
(* Lines 34-36 with err == nil: the adapter placed the order and returned  *)
(* it with the id it assigned.                                             *)
(***************************************************************************)
PlaceOrderOk(c) ==
  /\ pc[c] = "place"
  /\ i[c] < MaxAttempts
  /\ r' = [r EXCEPT ![c] =
             [ord[c] EXCEPT !.ID = OrderID(c), !.Filled = (ord[c].Type = "MARKET")]]
  /\ placed' = placed \cup {[call |-> c, key |-> Key(ord[c]), id |-> OrderID(c)]}
  /\ placeCalls' = [placeCalls EXCEPT ![c] = @ + 1]
  /\ pc' = [pc EXCEPT ![c] = "register"]
  /\ UNCHANGED <<ord, i, wait, lastErr, ret, pending, dbOrders, dbTrades, sleeps,
                 saveLog, prior>>
  /\ UNCHANGED notOM

\* variant of PlaceOrderErr: the wait grows by a fixed step instead of doubling
PlaceOrderErr_LinearBackoff(c) ==
  /\ pc[c] = "place"
  /\ i[c] < MaxAttempts
  /\ lastErr' = [lastErr EXCEPT ![c] = AdapterErr(c, placeCalls[c] + 1)]
  /\ placeCalls' = [placeCalls EXCEPT ![c] = @ + 1]
  /\ sleeps' = [sleeps EXCEPT ![c] = Append(@, wait[c])]
  /\ wait' = [wait EXCEPT ![c] = @ + InitialWaitMs]
  /\ i' = [i EXCEPT ![c] = @ + 1]
  /\ UNCHANGED <<pc, ord, r, ret, pending, dbOrders, dbTrades, placed, saveLog, prior>>
  /\ UNCHANGED notOM

(***************************************************************************)
(* Lines 34-35, 70-73: the adapter reported an error; record it, sleep,    *)
(* double the wait, next iteration.                                        *)
(***************************************************************************)
PlaceOrderErr(c) ==
  /\ pc[c] = "place"
  /\ i[c] < MaxAttempts
  /\ lastErr' = [lastErr EXCEPT ![c] = AdapterErr(c, placeCalls[c] + 1)]
  /\ placeCalls' = [placeCalls EXCEPT ![c] = @ + 1]
  /\ sleeps' = [sleeps EXCEPT ![c] = Append(@, wait[c])]
  /\ wait' = [wait EXCEPT ![c] = @ * 2]
  /\ i' = [i EXCEPT ![c] = @ + 1]
  /\ UNCHANGED <<pc, ord, r, ret, pending, dbOrders, dbTrades, placed, saveLog, prior>>
  /\ UNCHANGED notOM

\* variant of Register: the mapping is not stored
Register_NoStore(c) ==
  /\ pc[c] = "register"
  /\ pc' = [pc EXCEPT ![c] = "save_order"]
  /\ UNCHANGED <<ord, i, wait, lastErr, r, ret, pending, dbOrders, dbTrades, placed,
                 placeCalls, sleeps, saveLog, prior>>
  /\ UNCHANGED notOM

(***************************************************************************)
(* Lines 37-39: om.pending[key] = r.ID under the mutex.                    *)
(***************************************************************************)
Register(c) ==
  /\ pc[c] = "register"
  /\ pending' = MapPut(pending, Key(ord[c]), r[c].ID)
  /\ pc' = [pc EXCEPT ![c] = "save_order"]
  /\ UNCHANGED <<ord, i, wait, lastErr, r, ret, dbOrders, dbTrades, placed,
                 placeCalls, sleeps, saveLog, prior>>
  /\ UNCHANGED notOM

\* variant of SaveOrderFail: the mapping is rolled back when SaveOrder fails
SaveOrderFail_Unregisters(c) ==
  /\ pc[c] = "save_order"
  /\ ret' = [ret EXCEPT ![c] = [order |-> r[c], err |-> <<"save_order_failed">>]]
  /\ pending' = [x \in (DOMAIN pending) \ {Key(ord[c])} |-> pending[x]]
  /\ pc' = [pc EXCEPT ![c] = "done"]
  /\ UNCHANGED <<ord, i, wait, lastErr, r, dbOrders, dbTrades, placed,
                 placeCalls, sleeps, saveLog, prior>>
  /\ UNCHANGED notOM

(***************************************************************************)
(* Lines 40-53: SaveOrder; an error returns (r, err).                      *)
(***************************************************************************)
SaveOrderOk(c) ==
  /\ pc[c] = "save_order"
  /\ dbOrders' = Upsert(dbOrders,
       [id |-> r[c].ID, symbol |-> r[c].Symbol, side |-> r[c].Side, type |-> r[c].Type,
        price |-> r[c].Price, filledPrice |-> r[c].FilledPrice, quantity |-> r[c].Quantity])
  /\ saveLog' = [saveLog EXCEPT ![c] = Append(@, "order")]
  /\ pc' = [pc EXCEPT ![c] = "save_trade"]
  /\ UNCHANGED <<ord, i, wait, lastErr, r, ret, pending, dbTrades, placed,
                 placeCalls, sleeps, prior>>
  /\ UNCHANGED notOM

SaveOrderFail(c) ==
  /\ pc[c] = "save_order"
  /\ ret' = [ret EXCEPT ![c] = [order |-> r[c], err |-> <<"save_order_failed">>]]
  /\ pc' = [pc EXCEPT ![c] = "done"]
  /\ UNCHANGED <<ord, i, wait, lastErr, r, pending, dbOrders, dbTrades, placed,
                 placeCalls, sleeps, saveLog, prior>>
  /\ UNCHANGED notOM

\* variant of SaveTradeOk: the trade record references the trade id, not r.ID
SaveTradeOk_WrongOrderRef(c) ==
  /\ pc[c] = "save_trade"
  /\ dbTrades' = Upsert(dbTrades,
       [id |-> <<r[c].ID, "_trade">>, orderID |-> <<r[c].ID, "_trade">>,
        symbol |-> r[c].Symbol, side |-> r[c].Side, price |-> r[c].FilledPrice,
        quantity |-> r[c].Quantity])
  /\ saveLog' = [saveLog EXCEPT ![c] = Append(@, "trade")]
  /\ ret' = [ret EXCEPT ![c] = [order |-> r[c], err |-> <<"nil">>]]
  /\ pc' = [pc EXCEPT ![c] = "done"]
  /\ UNCHANGED <<ord, i, wait, lastErr, r, pending, dbOrders, placed, placeCalls,
                 sleeps, prior>>
  /\ UNCHANGED notOM

(***************************************************************************)
(* Lines 54-68: SaveTrade with id r.ID + "_trade"; an error returns        *)
(* (r, err), success returns (r, nil).                                     *)
(***************************************************************************)
SaveTradeOk(c) ==
  /\ pc[c] = "save_trade"
  /\ dbTrades' = Upsert(dbTrades,
       [id |-> <<r[c].ID, "_trade">>, orderID |-> r[c].ID, symbol |-> r[c].Symbol,
        side |-> r[c].Side, price |-> r[c].FilledPrice, quantity |-> r[c].Quantity])
  /\ saveLog' = [saveLog EXCEPT ![c] = Append(@, "trade")]
  /\ ret' = [ret EXCEPT ![c] = [order |-> r[c], err |-> <<"nil">>]]
  /\ pc' = [pc EXCEPT ![c] = "done"]
  /\ UNCHANGED <<ord, i, wait, lastErr, r, pending, dbOrders, placed, placeCalls,
                 sleeps, prior>>
  /\ UNCHANGED notOM

SaveTradeFail(c) ==
  /\ pc[c] = "save_trade"
  /\ ret' = [ret EXCEPT ![c] = [order |-> r[c], err |-> <<"save_trade_failed">>]]
  /\ pc' = [pc EXCEPT ![c] = "done"]
  /\ UNCHANGED <<ord, i, wait, lastErr, r, pending, dbOrders, dbTrades, placed,
                 placeCalls, sleeps, saveLog, prior>>
  /\ UNCHANGED notOM

\* variant of ReturnExhausted: the failure is registered under the key
ReturnExhausted_Registers(c) ==
  /\ pc[c] = "place"
  /\ i[c] >= MaxAttempts
  /\ ret' = [ret EXCEPT ![c] = [order |-> ZeroOrder, err |-> lastErr[c]]]
  /\ pending' = MapPut(pending, Key(ord[c]), ZeroOrder.ID)
  /\ pc' = [pc EXCEPT ![c] = "done"]
  /\ UNCHANGED <<ord, i, wait, lastErr, r, dbOrders, dbTrades, placed,
                 placeCalls, sleeps, saveLog, prior>>
  /\ UNCHANGED notOM

(***************************************************************************)
(* Line 74: the loop ran out: return Order{}, lastErr.                     *)
(***************************************************************************)
ReturnExhausted(c) ==
  /\ pc[c] = "place"
  /\ i[c] >= MaxAttempts
  /\ ret' = [ret EXCEPT ![c] = [order |-> ZeroOrder, err |-> lastErr[c]]]
  /\ pc' = [pc EXCEPT ![c] = "done"]
  /\ UNCHANGED <<ord, i, wait, lastErr, r, pending, dbOrders, dbTrades, placed,
                 placeCalls, sleeps, saveLog, prior>>
  /\ UNCHANGED notOM

SubmitStep(c) ==
  \/ PlaceOrderOk(c)
  \/ PlaceOrderErr(c)
  \/ Register(c)
  \/ SaveOrderOk(c)
  \/ SaveOrderFail(c)
  \/ SaveTradeOk(c)
  \/ SaveTradeFail(c)
  \/ ReturnExhausted(c)

\* Submit called from several strategy workers at once
NextOM == \E c \in Calls : Submit(c) \/ SubmitStep(c)

\* one Submit at a time
NextOMSeq == \E c \in Calls : SubmitSeq(c) \/ SubmitStep(c)


(***************************************************************************)
(* Part 2: Engine (pkg/engine/engine.go).                                  *)
(***************************************************************************)
\* Start invocations: each is launched as `go eng.Start(ctx)`
Starts == {1}
\* Stop invocations
Stops == {1}
Strategies == 1..NumStrategies

InitEngine ==
  /\ ePc = [k \in Starts |-> "unspawned"]
  /\ sIdx = [k \in Starts |-> 1]
  /\ waitCtx = [k \in Starts |-> 0]
  /\ eCtx = 0
  /\ eCancel = 0
  /\ ctxDone = [k \in Starts |-> FALSE]
  /\ parentDone = [k \in Starts |-> FALSE]
  /\ eLock = 0
  /\ wg = 0
  /\ eStatus = ""
  /\ wk = [k \in Starts |-> [s \in Strategies |-> "none"]]
  /\ subCtx = [k \in Starts |-> [s \in Strategies |-> 0]]
  /\ ch = [k \in Starts |-> [s \in Strategies |-> << >>]]
  /\ chClosed = [k \in Starts |-> [s \in Strategies |-> FALSE]]
  /\ produced = [k \in Starts |-> [s \in Strategies |-> 0]]
  /\ stPc = [j \in Stops |-> "idle"]
  /\ stopSaw = [j \in Stops |-> {}]
  /\ onStart = [s \in Strategies |-> 0]
  /\ onStop = [s \in Strategies |-> 0]
  /\ got = [k \in Starts |-> [s \in Strategies |-> 0]]

(***************************************************************************)
(* main.go 143 / setUpAPIs: `go eng.Start(ctx)`: the goroutine exists but  *)
(* has not run yet.                                                        *)
(***************************************************************************)
StartSpawn(k) ==
  /\ ePc[k] = "unspawned"
  /\ ePc' = [ePc EXCEPT ![k] = "spawned"]
  /\ UNCHANGED <<sIdx, waitCtx, eCtx, eCancel, ctxDone, parentDone, eLock, wg, eStatus,
                 wk, subCtx, ch, chClosed, produced, stPc, stopSaw, onStart, onStop, got>>
  /\ UNCHANGED notEngine

(***************************************************************************)
(* main.go 160: cancel() of the context passed to Start (for a Start made  *)
(* by the HTTP handler: the request context ends).  A derived context is   *)
(* cancelled with its parent.                                              *)
(***************************************************************************)
ParentCancel(k) ==
  /\ ePc[k] # "unspawned"
  /\ ~parentDone[k]
  /\ parentDone' = [parentDone EXCEPT ![k] = TRUE]
  /\ ctxDone' = IF ePc[k] = "spawned" THEN ctxDone ELSE [ctxDone EXCEPT ![k] = TRUE]
  /\ UNCHANGED <<ePc, sIdx, waitCtx, eCtx, eCancel, eLock, wg, eStatus,
                 wk, subCtx, ch, chClosed, produced, stPc, stopSaw, onStart, onStop, got>>
  /\ UNCHANGED notEngine

(***************************************************************************)
(* Engine.Start line 64: e.ctx, e.cancel = context.WithCancel(ctx).        *)
(***************************************************************************)
StartWithCancel(k) ==
  /\ ePc[k] = "spawned"
  /\ eCtx' = k
  /\ eCancel' = k
  /\ ctxDone' = [ctxDone EXCEPT ![k] = parentDone[k]]
  /\ ePc' = [ePc EXCEPT ![k] = "lock"]
  /\ UNCHANGED <<sIdx, waitCtx, parentDone, eLock, wg, eStatus,
                 wk, subCtx, ch, chClosed, produced, stPc, stopSaw, onStart, onStop, got>>
  /\ UNCHANGED notEngine

(***************************************************************************)
(* Line 66: e.lock.Lock().                                                 *)
(***************************************************************************)
StartLock(k) ==
  /\ ePc[k] = "lock"
  /\ eLock = 0
  /\ eLock' = k
  /\ sIdx' = [sIdx EXCEPT ![k] = 1]
  /\ ePc' = [ePc EXCEPT ![k] = "loop"]
  /\ UNCHANGED <<waitCtx, eCtx, eCancel, ctxDone, parentDone, wg, eStatus,
                 wk, subCtx, ch, chClosed, produced, stPc, stopSaw, onStart, onStop, got>>
  /\ UNCHANGED notEngine

(***************************************************************************)
(* Lines 69-102, one iteration with a subscription that succeeds:          *)
(* s.OnStart(), SubscribeCandles(e.ctx, ...), e.wg.Add(1), go worker.      *)
(***************************************************************************)
StartSubscribe(k) ==
  /\ ePc[k] = "loop"
  /\ sIdx[k] <= NumStrategies
  /\ LET s == sIdx[k] IN
       /\ onStart' = [onStart EXCEPT ![s] = @ + 1]
       /\ subCtx' = [subCtx EXCEPT ![k][s] = eCtx]
       /\ wk' = [wk EXCEPT ![k][s] = "running"]
  /\ wg' = wg + 1
  /\ sIdx' = [sIdx EXCEPT ![k] = @ + 1]
  /\ UNCHANGED <<ePc, waitCtx, eCtx, eCancel, ctxDone, parentDone, eLock, eStatus,
                 ch, chClosed, produced, stPc, stopSaw, onStop, got>>
  /\ UNCHANGED notEngine

\* a Start that gives up at the first failed subscription
StartSubscribeFail_Aborts(k) ==
  /\ ePc[k] = "loop"
  /\ sIdx[k] <= NumStrategies
  /\ onStart' = [onStart EXCEPT ![sIdx[k]] = @ + 1]
  /\ sIdx' = [sIdx EXCEPT ![k] = NumStrategies + 1]
  /\ UNCHANGED <<ePc, waitCtx, eCtx, eCancel, ctxDone, parentDone, eLock, wg, eStatus,
                 wk, subCtx, ch, chClosed, produced, stPc, stopSaw, onStop, got>>
  /\ UNCHANGED notEngine

(***************************************************************************)
(* Lines 69-80, one iteration whose SubscribeCandles returns an error:     *)
(* log and continue.                                                       *)
(***************************************************************************)
StartSubscribeFail(k) ==
  /\ ePc[k] = "loop"
  /\ sIdx[k] <= NumStrategies
  /\ onStart' = [onStart EXCEPT ![sIdx[k]] = @ + 1]
  /\ sIdx' = [sIdx EXCEPT ![k] = @ + 1]
  /\ UNCHANGED <<ePc, waitCtx, eCtx, eCancel, ctxDone, parentDone, eLock, wg, eStatus,
                 wk, subCtx, ch, chClosed, produced, stPc, stopSaw, onStop, got>>
  /\ UNCHANGED notEngine

(***************************************************************************)
(* Lines 105-109: e.status = "Started"; evaluate e.ctx.Done() and block.   *)
(***************************************************************************)
StartStarted(k) ==
  /\ ePc[k] = "loop"
  /\ sIdx[k] > NumStrategies
  /\ eStatus' = "Started"
  /\ waitCtx' = [waitCtx EXCEPT ![k] = eCtx]
  /\ ePc' = [ePc EXCEPT ![k] = "wait"]
  /\ UNCHANGED <<sIdx, eCtx, eCancel, ctxDone, parentDone, eLock, wg,
                 wk, subCtx, ch, chClosed, produced, stPc, stopSaw, onStart, onStop, got>>
  /\ UNCHANGED notEngine

\* a Start that joins its workers before it returns
StartReturn_JoinsWorkers(k) ==
  /\ ePc[k] = "wait"
  /\ ctxDone[waitCtx[k]]
  /\ wg = 0
  /\ eLock' = 0
  /\ ePc' = [ePc EXCEPT ![k] = "returned"]
  /\ UNCHANGED <<sIdx, waitCtx, eCtx, eCancel, ctxDone, parentDone, wg, eStatus,
                 wk, subCtx, ch, chClosed, produced, stPc, stopSaw, onStart, onStop, got>>
  /\ UNCHANGED notEngine

(***************************************************************************)
(* Lines 109-110 and the deferred Unlock of line 67.                       *)
(***************************************************************************)
StartReturn(k) ==
  /\ ePc[k] = "wait"
  /\ ctxDone[waitCtx[k]]
  /\ eLock' = 0
  /\ ePc' = [ePc EXCEPT ![k] = "returned"]
  /\ UNCHANGED <<sIdx, waitCtx, eCtx, eCancel, ctxDone, parentDone, wg, eStatus,
                 wk, subCtx, ch, chClosed, produced, stPc, stopSaw, onStart, onStop, got>>
  /\ UNCHANGED notEngine

(***************************************************************************)
(* The feed of a subscription: MockExchange.SubscribeCandles, the          *)
(* generator goroutine (mock.go 146-168), which sends its candles (candle  *)
(* n carries time n) in a select with ctx.Done() and closes the channel;   *)
(* a live feed does not end after one reply but polls again.  The channel  *)
(* holds ChanCap candles.                                                  *)
(***************************************************************************)
ProducerSend(k, s) ==
  /\ subCtx[k][s] # 0
  /\ ~chClosed[k][s]
  /\ produced[k][s] < MaxCandles
  /\ Len(ch[k][s]) < ChanCap
  /\ produced' = [produced EXCEPT ![k][s] = @ + 1]
  /\ ch' = [ch EXCEPT ![k][s] = Append(@, produced[k][s] + 1)]
  /\ UNCHANGED <<ePc, sIdx, waitCtx, eCtx, eCancel, ctxDone, parentDone, eLock, wg,
                 eStatus, wk, subCtx, chClosed, stPc, stopSaw, onStart, onStop, got>>
  /\ UNCHANGED notEngine

\* case <-ctx.Done(): close(ch); return
ProducerCancelled(k, s) ==
  /\ subCtx[k][s] # 0
  /\ ~chClosed[k][s]
  /\ produced[k][s] < MaxCandles
  /\ ctxDone[subCtx[k][s]]
  /\ chClosed' = [chClosed EXCEPT ![k][s] = TRUE]
  /\ UNCHANGED <<ePc, sIdx, waitCtx, eCtx, eCancel, ctxDone, parentDone, eLock, wg,
                 eStatus, wk, subCtx, ch, produced, stPc, stopSaw, onStart, onStop, got>>
  /\ UNCHANGED notEngine

\* a live feed (binance.go 201-232, mock.go 491-531): the candles of one poll
\* are sent, the context is not cancelled, the pause is over: poll again; the
\* next reply holds the most recent candles once more
ProducerPollAgain(k, s) ==
  /\ subCtx[k][s] # 0
  /\ ~chClosed[k][s]
  /\ produced[k][s] >= MaxCandles
  /\ ~ctxDone[subCtx[k][s]]
  /\ produced' = [produced EXCEPT ![k][s] = 0]
  /\ UNCHANGED <<ePc, sIdx, waitCtx, eCtx, eCancel, ctxDone, parentDone, eLock, wg,
                 eStatus, wk, subCtx, ch, chClosed, stPc, stopSaw, onStart, onStop, got>>
  /\ UNCHANGED notEngine

\* the loop ran out (a live feed: the request failed, or the context is
\* cancelled): close(ch)
ProducerFinish(k, s) ==
  /\ subCtx[k][s] # 0
  /\ ~chClosed[k][s]
  /\ produced[k][s] >= MaxCandles
  /\ chClosed' = [chClosed EXCEPT ![k][s] = TRUE]
  /\ UNCHANGED <<ePc, sIdx, waitCtx, eCtx, eCancel, ctxDone, parentDone, eLock, wg,
                 eStatus, wk, subCtx, ch, produced, stPc, stopSaw, onStart, onStop, got>>
  /\ UNCHANGED notEngine

(***************************************************************************)
(* The dispatch worker, engine.go 85-102.  A select with several ready     *)
(* cases takes any of them.                                                *)
(***************************************************************************)
\* case c, ok := <-ch with ok: cc++; st.OnCandle(c) is entered
WorkerRecv(k, s) ==
  /\ wk[k][s] = "running"
  /\ Len(ch[k][s]) > 0
  /\ ch' = [ch EXCEPT ![k][s] = Tail(@)]
  /\ got' = [got EXCEPT ![k][s] = IF @ < MaxGot THEN @ + 1 ELSE @]
  /\ wk' = [wk EXCEPT ![k][s] = "in_candle"]
  /\ UNCHANGED <<ePc, sIdx, waitCtx, eCtx, eCancel, ctxDone, parentDone, eLock, wg,
                 eStatus, subCtx, chClosed, produced, stPc, stopSaw, onStart, onStop>>
  /\ UNCHANGED notEngine

\* st.OnCandle(c) returns
WorkerCandleDone(k, s) ==
  /\ wk[k][s] = "in_candle"
  /\ wk' = [wk EXCEPT ![k][s] = "running"]
  /\ UNCHANGED <<ePc, sIdx, waitCtx, eCtx, eCancel, ctxDone, parentDone, eLock, wg,
                 eStatus, subCtx, ch, chClosed, produced, stPc, stopSaw, onStart, onStop,
                 got>>
  /\ UNCHANGED notEngine

\* case c, ok := <-ch with !ok: return (deferred e.wg.Done())
WorkerChanClosed(k, s) ==
  /\ wk[k][s] = "running"
  /\ Len(ch[k][s]) = 0
  /\ chClosed[k][s]
  /\ wk' = [wk EXCEPT ![k][s] = "exited"]
  /\ wg' = wg - 1
  /\ UNCHANGED <<ePc, sIdx, waitCtx, eCtx, eCancel, ctxDone, parentDone, eLock,
                 eStatus, subCtx, ch, chClosed, produced, stPc, stopSaw, onStart, onStop,
                 got>>
  /\ UNCHANGED notEngine

\* case <-e.ctx.Done(): return (deferred e.wg.Done()); e.ctx is read each time
WorkerCancelled(k, s) ==
  /\ wk[k][s] = "running"
  /\ ctxDone[eCtx]
  /\ wk' = [wk EXCEPT ![k][s] = "exited"]
  /\ wg' = wg - 1
  /\ UNCHANGED <<ePc, sIdx, waitCtx, eCtx, eCancel, ctxDone, parentDone, eLock,
                 eStatus, subCtx, ch, chClosed, produced, stPc, stopSaw, onStart, onStop,
                 got>>
  /\ UNCHANGED notEngine

(***************************************************************************)
(* Engine.Stop lines 113-115: if e.cancel != nil { e.cancel() }.           *)
(***************************************************************************)
StopCancel(j) ==
  /\ stPc[j] = "idle"
  /\ stopSaw' = [stopSaw EXCEPT ![j] = {k \in Starts : ePc[k] # "unspawned"}]
  /\ ctxDone' = IF eCancel = 0 THEN ctxDone ELSE [ctxDone EXCEPT ![eCancel] = TRUE]
  /\ stPc' = [stPc EXCEPT ![j] = "wait"]
  /\ UNCHANGED <<ePc, sIdx, waitCtx, eCtx, eCancel, parentDone, eLock, wg, eStatus,
                 wk, subCtx, ch, chClosed, produced, onStart, onStop, got>>
  /\ UNCHANGED notEngine

\* line 116: e.wg.Wait() returns when the counter is zero
StopWait(j) ==
  /\ stPc[j] = "wait"
  /\ wg = 0
  /\ stPc' = [stPc EXCEPT ![j] = "hooks"]
  /\ UNCHANGED <<ePc, sIdx, waitCtx, eCtx, eCancel, ctxDone, parentDone, eLock, wg,
                 eStatus, wk, subCtx, ch, chClosed, produced, stopSaw, onStart, onStop,
                 got>>
  /\ UNCHANGED notEngine

\* lines 117-122: OnStop of every strategy, e.status = "Stopped", return
StopHooks(j) ==
  /\ stPc[j] = "hooks"
  /\ onStop' = [s \in Strategies |-> onStop[s] + 1]
  /\ eStatus' = "Stopped"
  /\ stPc' = [stPc EXCEPT ![j] = "returned"]
  /\ UNCHANGED <<ePc, sIdx, waitCtx, eCtx, eCancel, ctxDone, parentDone, eLock, wg,
                 wk, subCtx, ch, chClosed, produced, stopSaw, onStart, got>>
  /\ UNCHANGED notEngine

NextEngine ==
  \/ \E k \in Starts :
       \/ StartSpawn(k)
       \/ ParentCancel(k)
       \/ StartWithCancel(k)
       \/ StartLock(k)
       \/ StartSubscribe(k)
       \/ StartSubscribeFail(k)
       \/ StartStarted(k)
       \/ StartReturn(k)
  \/ \E k \in Starts, s \in Strategies :
       \/ ProducerSend(k, s)
       \/ ProducerCancelled(k, s)
       \/ ProducerPollAgain(k, s)
       \/ ProducerFinish(k, s)
       \/ WorkerRecv(k, s)
       \/ WorkerCandleDone(k, s)
       \/ WorkerChanClosed(k, s)
       \/ WorkerCancelled(k, s)
  \/ \E j \in Stops :
       \/ StopCancel(j)
       \/ StopWait(j)
       \/ StopHooks(j)

(***************************************************************************)
(* Part 3: the candle feed of a polling adapter, BinanceAdapter and        *)
(* AlpacaAdapter SubscribeCandles (binance.go 187-236, mock.go 483-535),   *)
(* one feed per strategy, each read by a dispatch worker of the engine     *)
(* (engine.go 85-102), all under one context.                              *)
(***************************************************************************)
InitFeed ==
  /\ fPc = [s \in Strategies |-> "poll"]
  /\ fLeft = [s \in Strategies |-> << >>]
  /\ fBuf = [s \in Strategies |-> << >>]
  /\ fSeen = [s \in Strategies |-> << >>]
  /\ fCtxDone = FALSE
  /\ fWk = [s \in Strategies |-> "running"]

\* the request made with ctx succeeds and returns the `limit` most recent
\* candles, oldest first, or an empty array.  Polls are 3 s apart and candles
\* a minute: the newest candle, of time PollLimit, is the same from one poll
\* to the next
PollFetch(s) ==
  /\ fPc[s] = "poll"
  /\ ~fCtxDone
  /\ \E n \in {0, PollLimit} :
       fLeft' = [fLeft EXCEPT ![s] = [x \in 1..n |-> x]]
  /\ fPc' = [fPc EXCEPT ![s] = "send"]
  /\ UNCHANGED <<fBuf, fCtxDone, fWk, fSeen>>
  /\ UNCHANGED notFeed

\* the request fails (it always does once ctx is cancelled), or the reply
\* does not parse: return, and the deferred close(ch) runs
PollError(s) ==
  /\ fPc[s] = "poll"
  /\ fPc' = [fPc EXCEPT ![s] = "closed"]
  /\ UNCHANGED <<fLeft, fBuf, fCtxDone, fWk, fSeen>>
  /\ UNCHANGED notFeed

\* ch <- engine.Candle{...}: proceeds only while the buffer has room
PollSend(s) ==
  /\ fPc[s] = "send"
  /\ Len(fLeft[s]) > 0
  /\ Len(fBuf[s]) < ChanCap
  /\ fBuf' = [fBuf EXCEPT ![s] = Append(@, Head(fLeft[s]))]
  /\ fLeft' = [fLeft EXCEPT ![s] = Tail(@)]
  /\ UNCHANGED <<fPc, fCtxDone, fWk, fSeen>>
  /\ UNCHANGED notFeed

\* the range over the reply is over: enter the select
PollSent(s) ==
  /\ fPc[s] = "send"
  /\ Len(fLeft[s]) = 0
  /\ fPc' = [fPc EXCEPT ![s] = "pause"]
  /\ UNCHANGED <<fLeft, fBuf, fCtxDone, fWk, fSeen>>
  /\ UNCHANGED notFeed

\* case <-ctx.Done(): return, and the deferred close(ch) runs
PollCancelled(s) ==
  /\ fPc[s] = "pause"
  /\ fCtxDone
  /\ fPc' = [fPc EXCEPT ![s] = "closed"]
  /\ UNCHANGED <<fLeft, fBuf, fCtxDone, fWk, fSeen>>
  /\ UNCHANGED notFeed

\* case <-time.After(3 * time.Second): next poll
PollTimer(s) ==
  /\ fPc[s] = "pause"
  /\ fPc' = [fPc EXCEPT ![s] = "poll"]
  /\ UNCHANGED <<fLeft, fBuf, fCtxDone, fWk, fSeen>>
  /\ UNCHANGED notFeed

\* engine.go 90-96: a candle is received and st.OnCandle(c) is entered
DispatchRecv(s) ==
  /\ fWk[s] = "running"
  /\ Len(fBuf[s]) > 0
  /\ fBuf' = [fBuf EXCEPT ![s] = Tail(@)]
  /\ fSeen' = [fSeen EXCEPT ![s] = IF Len(@) < 2 THEN Append(@, Head(fBuf[s]))
                                     ELSE <<@[2], Head(fBuf[s])>>]
  /\ fWk' = [fWk EXCEPT ![s] = "in_candle"]
  /\ UNCHANGED <<fPc, fLeft, fCtxDone>>
  /\ UNCHANGED notFeed

\* st.OnCandle(c) returns
DispatchCandleDone(s) ==
  /\ fWk[s] = "in_candle"
  /\ fWk' = [fWk EXCEPT ![s] = "running"]
  /\ UNCHANGED <<fPc, fLeft, fBuf, fCtxDone, fSeen>>
  /\ UNCHANGED notFeed

\* engine.go 90-94: the channel is closed and drained: return
DispatchChanClosed(s) ==
  /\ fWk[s] = "running"
  /\ Len(fBuf[s]) = 0
  /\ fPc[s] = "closed"
  /\ fWk' = [fWk EXCEPT ![s] = "exited"]
  /\ UNCHANGED <<fPc, fLeft, fBuf, fCtxDone, fSeen>>
  /\ UNCHANGED notFeed

\* engine.go 97-99: case <-e.ctx.Done(): return
DispatchCancelled(s) ==
  /\ fWk[s] = "running"
  /\ fCtxDone
  /\ fWk' = [fWk EXCEPT ![s] = "exited"]
  /\ UNCHANGED <<fPc, fLeft, fBuf, fCtxDone, fSeen>>
  /\ UNCHANGED notFeed

\* Engine.Stop line 114 (or the parent's cancel): the context is cancelled
CancelFeed ==
  /\ ~fCtxDone
  /\ fCtxDone' = TRUE
  /\ UNCHANGED <<fPc, fLeft, fBuf, fWk, fSeen>>
  /\ UNCHANGED notFeed

NextFeed ==
  \/ \E s \in Strategies :
       \/ PollFetch(s)
       \/ PollError(s)
       \/ PollSend(s)
       \/ PollSent(s)
       \/ PollCancelled(s)
       \/ PollTimer(s)
       \/ DispatchRecv(s)
       \/ DispatchCandleDone(s)
       \/ DispatchChanClosed(s)
       \/ DispatchCancelled(s)
  \/ CancelFeed

(***************************************************************************)
(* Scheduling of the feed's goroutines: a goroutine that can step does,    *)
(* OnCandle returns, and a select whose cancellation case stays ready      *)
(* takes it at last.  A request that could succeed is not assumed to fail, *)
(* and the cancellation is not assumed to come.                            *)
(***************************************************************************)
FairFeed ==
  \A s \in Strategies :
    /\ WF_vars(PollFetch(s) \/ PollError(s))
    /\ WF_vars(PollSend(s))
    /\ WF_vars(PollSent(s))
    /\ WF_vars(PollCancelled(s) \/ PollTimer(s))
    /\ SF_vars(PollCancelled(s))
    /\ WF_vars(DispatchCandleDone(s))
    /\ WF_vars(DispatchRecv(s) \/ DispatchChanClosed(s) \/ DispatchCancelled(s))
    /\ SF_vars(DispatchCancelled(s))
(***************************************************************************)
(* Part 4: the Backtester (pkg/backtest): simulateFill, Submit, Run.       *)
(*                                                                         *)
(* float64 amounts are modelled as exact fractions <<n, d>> in lowest      *)
(* terms with d > 0; rounding of the floating point is not modelled.       *)
(***************************************************************************)
RECURSIVE GCD(_, _)
GCD(a, b) == IF b = 0 THEN a ELSE GCD(b, a % b)

Abs(n) == IF n < 0 THEN -n ELSE n

RNorm(n, d) ==
  LET g == GCD(Abs(n), Abs(d))
      sgn == IF d < 0 THEN -1 ELSE 1
  IN <<(sgn * n) \div g, (sgn * d) \div g>>

R(n) == <<n, 1>>
RAdd(a, b) == RNorm(a[1] * b[2] + b[1] * a[2], a[2] * b[2])
RNeg(a) == <<-a[1], a[2]>>
RSub(a, b) == RAdd(a, RNeg(b))
RMul(a, b) == RNorm(a[1] * b[1], a[2] * b[2])
\* a / b for b # 0
RDiv(a, b) == RNorm(a[1] * b[2], a[2] * b[1])
RGt0(a) == a[1] > 0
RLe0(a) == a[1] <= 0

\* inputs explored
BtTimes == 1..2
BtCloses == {100, 110}
BtQuantities == {1, 2}
BtInitialUSD == 1000
BtCandleSet == [Time : BtTimes, Close : BtCloses]
BtSides == {"BUY", "SELL"}

\* the sequences over S of length at most n
RECURSIVE SeqsUpTo(_, _)
SeqsUpTo(S, n) ==
  IF n = 0 THEN {<< >>}
  ELSE LET shorter == SeqsUpTo(S, n - 1)
       IN shorter \cup {Append(q, x) : q \in {z \in shorter : Len(z) = n - 1}, x \in S}

\* sort.Slice(b.candles, Time.Before): a permutation in ascending time; the
\* sort is not stable, candles of equal time may come out in any order
SortedByTime(cs) ==
  LET n == Len(cs)
      perms == {f \in [1..n -> 1..n] : \A a, b \in 1..n : a # b => f[a] # f[b]}
  IN {[x \in 1..n |-> cs[f[x]]] : f \in {g \in perms :
        \A a, b \in 1..n : a < b => cs[g[a]].Time <= cs[g[b]].Time}}

ZeroPosition == [Quantity |-> R(0), AvgPrice |-> R(0)]

NoStats == [RunID |-> << >>, FinalEquity |-> R(0), EquityCurve |-> << >>]

InitBt ==
  /\ btPc = "none"
  /\ btCandles = << >>
  /\ btIdx = 0
  /\ btLedger = [balance |-> R(0), position |-> ZeroPosition]
  /\ btEquity = << >>
  /\ btStats = NoStats
  /\ btFills = << >>
  /\ btClock = 0
  /\ btRunID = << >>
  /\ btDbOrders = {}
  /\ btDbTrades = {}
  /\ btDbRuns = {}
  /\ btCalls = << >>

\* NewBacktester(candles, strat, store, initialUSD)
NewBacktester ==
  /\ btPc = "none"
  /\ \E cs \in SeqsUpTo(BtCandleSet, MaxBtCandles) : btCandles' = cs
  /\ btLedger' = [balance |-> R(BtInitialUSD), position |-> ZeroPosition]
  /\ btPc' = "built"
  /\ UNCHANGED <<btIdx, btEquity, btStats, btFills, btClock, btRunID,
                 btDbOrders, btDbTrades, btDbRuns, btCalls>>
  /\ UNCHANGED notBt

\* a BUY that takes the fill price as the new average price
FillBuy_AvgIsPrice(led, q, p) ==
  [balance |-> RSub(led.balance, RMul(q, p)),
   position |-> [Quantity |-> RAdd(led.position.Quantity, q), AvgPrice |-> p]]

\* simulateFill, lines 44-52, case engine.SideBuy
FillBuy(led, q, p) ==
  LET pos == led.position
      cost == RMul(q, p)
      newQty == RAdd(pos.Quantity, q)
  IN [balance |-> RSub(led.balance, cost),
      position |->
        [Quantity |-> newQty,
         AvgPrice |-> IF RGt0(newQty)
                        THEN RDiv(RAdd(RMul(pos.AvgPrice, pos.Quantity), cost), newQty)
                        ELSE pos.AvgPrice]]

\* a SELL that takes the fill price as the average price of what is left
FillSell_AvgIsPrice(led, q, p) ==
  LET newQty == RSub(led.position.Quantity, q)
  IN [balance |-> RAdd(led.balance,
                       RAdd(RMul(q, p), RMul(RSub(p, led.position.AvgPrice), q))),
      position |-> [Quantity |-> newQty,
                    AvgPrice |-> IF RLe0(newQty) THEN R(0) ELSE p]]

\* a SELL that resets the average price only when the position is exactly flat
FillSell_ResetsAtZero(led, q, p) ==
  LET newQty == RSub(led.position.Quantity, q)
  IN [balance |-> RAdd(led.balance,
                       RAdd(RMul(q, p), RMul(RSub(p, led.position.AvgPrice), q))),
      position |-> [Quantity |-> newQty,
                    AvgPrice |-> IF newQty = R(0) THEN R(0) ELSE led.position.AvgPrice]]

\* a SELL that credits the proceeds only
FillSell_NoRealized(led, q, p) ==
  LET newQty == RSub(led.position.Quantity, q)
  IN [balance |-> RAdd(led.balance, RMul(q, p)),
      position |->
        [Quantity |-> newQty,
         AvgPrice |-> IF RLe0(newQty) THEN R(0) ELSE led.position.AvgPrice]]

\* a SELL that keeps the average price of a closed position
FillSell_KeepsAvg(led, q, p) ==
  [balance |-> RAdd(led.balance,
                    RAdd(RMul(q, p), RMul(RSub(p, led.position.AvgPrice), q))),
   position |-> [Quantity |-> RSub(led.position.Quantity, q),
                 AvgPrice |-> led.position.AvgPrice]]

\* simulateFill, lines 56-64, case engine.SideSell
FillSell(led, q, p) ==
  LET pos == led.position
      realized == RMul(RSub(p, pos.AvgPrice), q)
      newQty == RSub(pos.Quantity, q)
  IN [balance |-> RAdd(led.balance, RAdd(RMul(q, p), realized)),
      position |->
        [Quantity |-> newQty,
         AvgPrice |-> IF RLe0(newQty) THEN R(0) ELSE pos.AvgPrice]]

\* simulateFill, lines 42-65: the new balance and position
simulateFill(led, o, price) ==
  IF o.Side = "BUY" THEN FillBuy(led, R(o.Quantity), R(price))
  ELSE IF o.Side = "SELL" THEN FillSell(led, R(o.Quantity), R(price))
  ELSE led

\* simulateFill, lines 37-83, applied to order o at the given price while the
\* loop is at candle `at` (0: outside Run): ledger, then SaveOrder and
\* SaveTrade, whose errors are dropped
Fill(o, price, at) ==
  LET filled == [o EXCEPT !.Filled = TRUE, !.FilledPrice = price]
      post == simulateFill(btLedger, filled, price)
  IN /\ btLedger' = post
     /\ \E savedOrder, savedTrade \in BOOLEAN :
          /\ btFills' = Append(btFills,
                               [at |-> at, order |-> filled, pre |-> btLedger,
                                post |-> post,
                                saved |-> [order |-> savedOrder, trade |-> savedTrade]])
          /\ btDbOrders' = IF savedOrder
                             THEN Upsert(btDbOrders,
                                         [id |-> filled.ID, side |-> filled.Side,
                                          filled_price |-> price,
                                          quantity |-> filled.Quantity])
                             ELSE btDbOrders
          /\ btDbTrades' = IF savedTrade
                             THEN Upsert(btDbTrades,
                                         [id |-> <<"trade_", filled.ID>>,
                                          order_id |-> filled.ID,
                                          side |-> filled.Side, price |-> price,
                                          quantity |-> filled.Quantity])
                             ELSE btDbTrades

\* a direct application of simulateFill to an order at a price; simulateFill
\* reads no candle, so it is explored on a backtester built without candles
SimulateFillCall ==
  /\ btPc = "built"
  /\ btCandles = << >>
  /\ Len(btFills) < MaxFills
  /\ \E side \in BtSides, q \in BtQuantities, price \in BtCloses :
       Fill([Intent("BTCUSD", side, q) EXCEPT !.ID = <<"bt_", Len(btFills) + 1>>], price, 0)
  /\ UNCHANGED <<btPc, btCandles, btIdx, btEquity, btStats, btClock, btRunID,
                 btDbRuns, btCalls>>
  /\ UNCHANGED notBt

\* Submit, lines 88-97: price of the last element of b.candles, id from the
\* clock (which may not have advanced since it was last read), simulateFill
BtSubmit(o, at) ==
  /\ \E now \in {btClock, btClock + 1} :
       /\ btClock' = now
       /\ Fill([o EXCEPT !.ID = <<"bt_", now>>,
                         !.FilledPrice = btCandles[Len(btCandles)].Close],
               btCandles[Len(btCandles)].Close, at)

\* Run, lines 103-113: sort, start time and run id, SetAccountUSD, OnStart
RunBegin ==
  /\ btPc = "built"
  /\ btFills = << >>
  /\ \E srt \in SortedByTime(btCandles) : btCandles' = srt
  /\ btClock' = btClock + 1
  /\ btRunID' = <<"run_", btClock + 1>>
  /\ btCalls' = <<<<"SetAccountUSD", btLedger.balance>>, <<"OnStart">>>>
  /\ btEquity' = << >>
  /\ btIdx' = 1
  /\ btPc' = "loop"
  /\ UNCHANGED <<btLedger, btStats, btFills, btDbOrders, btDbTrades, btDbRuns>>
  /\ UNCHANGED notBt

\* an equity sample that leaves the open position out
EquitySample_BalanceOnly(led, c) == led.balance

\* lines 121-122 with the ledger led: unrealized, balance + unrealized
EquitySample(led, c) ==
  RAdd(led.balance, RMul(RSub(R(c.Close), led.position.AvgPrice), led.position.Quantity))

\* Run, lines 115-123, one candle on which the strategy submits nothing
RunCandleQuiet ==
  /\ btPc = "loop"
  /\ btIdx <= Len(btCandles)
  /\ btCalls' = Append(btCalls, <<"OnCandle", btCandles[btIdx]>>)
  /\ btEquity' = Append(btEquity, EquitySample(btLedger, btCandles[btIdx]))
  /\ btIdx' = btIdx + 1
  /\ UNCHANGED <<btPc, btCandles, btLedger, btStats, btFills, btClock, btRunID,
                 btDbOrders, btDbTrades, btDbRuns>>
  /\ UNCHANGED notBt

\* Run, lines 115-123, one candle on which the strategy submits an order
RunCandleOrder ==
  /\ btPc = "loop"
  /\ btIdx <= Len(btCandles)
  /\ \E side \in BtSides, q \in BtQuantities : BtSubmit(Intent("BTCUSD", side, q), btIdx)
  /\ btCalls' = Append(btCalls, <<"OnCandle", btCandles[btIdx]>>)
  /\ btEquity' = Append(btEquity, EquitySample(btLedger', btCandles[btIdx]))
  /\ btIdx' = btIdx + 1
  /\ UNCHANGED <<btPc, btCandles, btStats, btRunID, btDbRuns>>
  /\ UNCHANGED notBt

\* Run, lines 125-141, after at least one candle: OnStop, stats, SaveRun
\* (its error is dropped), return
RunFinish ==
  /\ btPc = "loop"
  /\ btIdx > Len(btCandles)
  /\ Len(btEquity) > 0
  /\ btCalls' = Append(btCalls, <<"OnStop">>)
  /\ btStats' = [RunID |-> btRunID,
                 FinalEquity |-> btEquity[Len(btEquity)],
                 EquityCurve |-> btEquity]
  /\ \E saved \in BOOLEAN :
       btDbRuns' = IF saved
                     THEN btDbRuns \cup {[id |-> btRunID,
                                          final |-> btEquity[Len(btEquity)]]}
                     ELSE btDbRuns
  /\ btPc' = "done"
  /\ UNCHANGED <<btCandles, btIdx, btLedger, btEquity, btFills, btClock,
                 btRunID, btDbOrders, btDbTrades>>
  /\ UNCHANGED notBt

\* Run, lines 125-134, with no candle: OnStop, then equityCurve[-1] panics
RunPanic ==
  /\ btPc = "loop"
  /\ btIdx > Len(btCandles)
  /\ Len(btEquity) = 0
  /\ btCalls' = Append(btCalls, <<"OnStop">>)
  /\ btPc' = "panic"
  /\ UNCHANGED <<btCandles, btIdx, btLedger, btEquity, btStats, btFills,
                 btClock, btRunID, btDbOrders, btDbTrades, btDbRuns>>
  /\ UNCHANGED notBt

\* a backtest: build, then Run
NextBacktest ==
  \/ NewBacktester
  \/ RunBegin
  \/ RunCandleQuiet
  \/ RunCandleOrder
  \/ RunFinish
  \/ RunPanic

\* simulateFill on its own: build, then fills at any price
NextFill ==
  \/ NewBacktester
  \/ SimulateFillCall

(***************************************************************************)
(* Part 5: Backtester.Run over the mock exchange (pkg/backtest/backtest.go *)
(* lines 13-82, the revision cmd/trading-engine wires).  Run subscribes to *)
(* the mock feed, pushes each candle into the feed's channel and hands the *)
(* strategies whatever it reads back from that channel.  SubscribeCandles  *)
(* also starts the demo generator, which sends into the same channel.      *)
(* Equity is bal["USD"] + pos.Quantity*close: PlaceOrder never writes      *)
(* m.positions, so the orders the strategies place in OnCandle show in     *)
(* this part only as USD paid by a BUY on a symbol quoted in USD.          *)
(***************************************************************************)

\* mockExchangeUSDBal, the balance NewMockExchange is given (default)
MockUSD == 100000
\* usdBal, the account balance main gives the strategies (default)
AccountUSD == 300
\* USD the BUY orders placed during one OnCandle round can cost: none
\* placed, or quantity*price of one sized order, about AccountUSD*Percent
MockSpend == {0, 1}

\* the generator's candle i: time now-200min+i min, here after every input
\* candle; price *= 1 + (0.0005 - 0.0002*(i%3)) from 30000, to whole units
GenStart == 1000
RECURSIVE GenClose(_)
GenClose(j) ==
  LET prev == IF j = 0 THEN 30000 ELSE GenClose(j - 1)
  IN (prev * (10005 - 2 * (j % 3))) \div 10000
GenCandle(j) == [Time |-> GenStart + j, Close |-> GenClose(j)]

InitReplay ==
  /\ rpPc = "none"
  /\ rpCandles = << >>
  /\ rpIdx = 0
  /\ rpFeed = << >>
  /\ rpGen = -1
  /\ rpCalls = << >>
  /\ rpUSD = 0
  /\ rpEquity = << >>

\* the hook h called on every strategy in the order of b.strats
RECURSIVE HookAll(_, _)
HookAll(h, n) ==
  IF n = 0 THEN << >> ELSE Append(HookAll(h, n - 1), <<h[1], n>> \o h[2])

\* main: SetAccountUSD on each strategy, then NewBacktester(candles, eng, db)
NewMockBacktester ==
  /\ rpPc = "none"
  /\ \E cs \in SeqsUpTo(BtCandleSet, MaxBtCandles) : rpCandles' = cs
  /\ rpCalls' = HookAll(<<"SetAccountUSD", <<AccountUSD>>>>, NumStrategies)
  /\ rpUSD' = MockUSD
  /\ rpPc' = "built"
  /\ UNCHANGED <<rpIdx, rpFeed, rpGen, rpEquity>>
  /\ UNCHANGED notRp

\* Run, lines 38-53: sort, SubscribeCandles (new channel, generator
\* started), OnStart on every strategy
MockRunBegin ==
  /\ rpPc = "built"
  /\ \E srt \in SortedByTime(rpCandles) : rpCandles' = srt
  /\ rpFeed' = << >>
  /\ rpGen' = 0
  /\ rpCalls' = rpCalls \o HookAll(<<"OnStart", << >>>>, NumStrategies)
  /\ rpEquity' = << >>
  /\ rpIdx' = 1
  /\ rpPc' = "push"
  /\ UNCHANGED rpUSD
  /\ UNCHANGED notRp

\* the generator goroutine, mock.go lines 149-166: send candle i, sleep
GeneratorSend ==
  /\ rpGen >= 0
  /\ rpGen < MaxGenerated
  /\ rpFeed' = Append(rpFeed, GenCandle(rpGen))
  /\ rpGen' = rpGen + 1
  /\ UNCHANGED <<rpPc, rpCandles, rpIdx, rpCalls, rpUSD, rpEquity>>
  /\ UNCHANGED notRp

\* Run, line 57: PushCandleInBacktest sends the candle into the channel
MockRunPush ==
  /\ rpPc = "push"
  /\ rpIdx <= Len(rpCandles)
  /\ rpFeed' = Append(rpFeed, rpCandles[rpIdx])
  /\ rpPc' = "recv"
  /\ UNCHANGED <<rpCandles, rpIdx, rpGen, rpCalls, rpUSD, rpEquity>>
  /\ UNCHANGED notRp

\* Run, lines 60-70: receive the head of the channel, OnCandle on every
\* strategy with it, equity from the exchange
MockRunRecv ==
  /\ rpPc = "recv"
  /\ rpFeed # << >>
  /\ rpFeed' = Tail(rpFeed)
  /\ rpCalls' = rpCalls \o HookAll(<<"OnCandle", <<Head(rpFeed)>>>>, NumStrategies)
  /\ \E spent \in MockSpend : rpUSD' = rpUSD - spent
  /\ rpEquity' = Append(rpEquity, rpUSD' + 0 * Head(rpFeed).Close)
  /\ rpIdx' = rpIdx + 1
  /\ rpPc' = "push"
  /\ UNCHANGED <<rpCandles, rpGen>>
  /\ UNCHANGED notRp

\* Run, lines 73-81, after at least one candle: OnStop, stats, return
MockRunFinish ==
  /\ rpPc = "push"
  /\ rpIdx > Len(rpCandles)
  /\ Len(rpEquity) > 0
  /\ rpCalls' = rpCalls \o HookAll(<<"OnStop", << >>>>, NumStrategies)
  /\ rpPc' = "done"
  /\ UNCHANGED <<rpCandles, rpIdx, rpFeed, rpGen, rpUSD, rpEquity>>
  /\ UNCHANGED notRp

\* Run, lines 73-78, with no candle: OnStop, then equityCurve[-1] panics
MockRunPanic ==
  /\ rpPc = "push"
  /\ rpIdx > Len(rpCandles)
  /\ Len(rpEquity) = 0
  /\ rpCalls' = rpCalls \o HookAll(<<"OnStop", << >>>>, NumStrategies)
  /\ rpPc' = "panic"
  /\ UNCHANGED <<rpCandles, rpIdx, rpFeed, rpGen, rpUSD, rpEquity>>
  /\ UNCHANGED notRp

NextReplay ==
  \/ NewMockBacktester
  \/ MockRunBegin
  \/ GeneratorSend
  \/ MockRunPush
  \/ MockRunRecv
  \/ MockRunFinish
  \/ MockRunPanic

(***************************************************************************)
(* Part 6: the two implementations of OrderExecutor.Submit side by side.   *)
(* Each order intent is given to the Submit of an OrderManager whose       *)
(* adapter places every order, and to the Submit of a Backtester.          *)
(***************************************************************************)
InitCompare ==
  /\ cmpPending = << >>
  /\ cmpLive = << >>

\* OrderManager.Submit(o) run alone with pending map pend, PlaceOrder
\* succeeding at the first attempt and assigning id: the map afterwards,
\* the order returned, whether the order was placed
SubmitPlaced(pend, o, id) ==
  IF Key(o) \in DOMAIN pend
    THEN [pending |-> pend,
          order |-> [ZeroOrder EXCEPT !.ID = pend[Key(o)]],
          placed |-> FALSE]
    ELSE [pending |-> MapPut(pend, Key(o), id),
          order |-> [o EXCEPT !.ID = id, !.Filled = (o.Type = "MARKET")],
          placed |-> TRUE]

\* one order intent submitted to both backends
CompareSubmit ==
  /\ btPc = "built"
  /\ Len(btCandles) = 1
  /\ Len(cmpLive) < MaxIntents
  /\ \E o \in Intents :
       /\ BtSubmit(o, 0)
       /\ LET live == SubmitPlaced(cmpPending, o, OrderID(Len(cmpLive) + 1))
          IN /\ cmpPending' = live.pending
             /\ cmpLive' = Append(cmpLive, [order |-> live.order, placed |-> live.placed])
  /\ UNCHANGED <<btPc, btCandles, btIdx, btEquity, btStats, btRunID, btDbRuns, btCalls>>
  /\ UNCHANGED notCmp

NextCompare ==
  \/ NewBacktester
  \/ CompareSubmit

(***************************************************************************)
(* Part 7: FixedPercentRisk.Size (pkg/engine/risk.go).  Amounts are exact  *)
(* fractions; the rounding of float64 arithmetic is not modelled.          *)
(***************************************************************************)
\* fdpr, the Percent main gives NewFixedPercentRisk (default 0.005)
RiskPercent == <<1, 200>>

\* prices and balances Size is explored on
RiskPrices == (-2)..9
RiskBalances == (-4)..5

\* math.Floor of a fraction (its denominator is positive)
RFloor(a) == a[1] \div a[2]

\* a quantity that drops the digits after the 8th decimal
Size_TowardZero(price, accountBalance) ==
  IF price <= 0 THEN R(0)
  ELSE LET x == RMul(RDiv(RMul(R(accountBalance), RiskPercent), R(price)), R(QtyScale))
       IN RNorm((IF x[1] < 0 THEN -1 ELSE 1) * (Abs(x[1]) \div x[2]), QtyScale)

\* Size, lines 13-21
Size(price, accountBalance) ==
  IF price <= 0 THEN R(0)
  ELSE LET usd == RMul(R(accountBalance), RiskPercent)
           qty == RDiv(usd, R(price))
       IN RNorm(RFloor(RMul(qty, R(QtyScale))), QtyScale)

NoSize == [price |-> 0, balance |-> 0, qty |-> << >>]

InitRisk == rkCall = NoSize

\* one call of Size
SizeCall ==
  /\ \E price \in RiskPrices, balance \in RiskBalances :
       rkCall' = [price |-> price, balance |-> balance, qty |-> Size(price, balance)]
  /\ UNCHANGED notRisk

NextRisk == SizeCall

(***************************************************************************)
(* Part 8: the strategies (pkg/strategy).  One strategy instance is built, *)
(* given its account balance and fed candles; Submit of its executor       *)
(* returns an order or an error.  Prices are whole numbers, averages exact *)
(* fractions; float64 rounding is not modelled.  The standard deviation is *)
(* kept as its square, and x < mean - k*sd is decided on squares.          *)
(***************************************************************************)
\* closes and balances explored
StratCloses == {0, 10, 11}
StratBalances == {-300, 0, AccountUSD}

RLt(a, b) == a[1] * b[2] < b[1] * a[2]
RLe(a, b) == a[1] * b[2] <= b[1] * a[2]

RECURSIVE SumSeq(_)
SumSeq(xs) == IF xs = << >> THEN 0 ELSE xs[1] + SumSeq(Tail(xs))

\* meanStd, lines 41-58: the mean and the variance (the square of the
\* standard deviation returned)
meanStd(xs) ==
  LET n == Len(xs)
      sum == SumSeq(xs)
  IN IF n = 0 THEN [mean |-> R(0), variance |-> R(0)]
     ELSE [mean |-> RNorm(sum, n),
           variance |-> RNorm(SumSeq([j \in 1..n |-> (n * xs[j] - sum) * (n * xs[j] - sum)]),
                              n * n * n)]

\* ema, lines 138-155
RECURSIVE ema(_, _)
ema(series, period) ==
  LET n == Len(series)
  IN IF period <= 0 THEN [j \in 1..n |-> R(0)]
     ELSE IF n = 0 THEN << >>
     ELSE IF n = 1 THEN <<R(series[1])>>
     ELSE LET out == ema(SubSeq(series, 1, n - 1), period)
              prev == out[n - 1]
              k == RNorm(2, period + 1)
          IN Append(out, RAdd(RMul(RSub(R(series[n]), prev), k), prev))

\* a crossover that gives its signal during the warm-up as well
EmaSignal_NoWarmup(prices) ==
  IF Len(prices) < 2 THEN ""
  ELSE LET short == ema(prices, ShortP)
           long == ema(prices, LongP)
           n == Len(prices)
       IN IF RLe(short[n - 1], long[n - 1]) /\ RLt(long[n], short[n]) THEN "BUY"
          ELSE IF RLe(long[n - 1], short[n - 1]) /\ RLt(short[n], long[n]) THEN "SELL"
          ELSE ""

\* a signal on every candle with the short average above the long one
EmaSignal_Above(prices) ==
  IF Len(prices) < LongP + 2 THEN ""
  ELSE IF RLt(ema(prices, LongP)[Len(prices)], ema(prices, ShortP)[Len(prices)])
         THEN "BUY" ELSE ""

\* EMACrossover.OnCandle, lines 162-169 and 181: the order side the
\* history asks for, "" for none
EmaSignal(prices) ==
  IF Len(prices) < LongP + 2 THEN ""
  ELSE LET short == ema(prices, ShortP)
           long == ema(prices, LongP)
           n == Len(prices)
           prev == n - 1
       IN IF RLe(short[prev], long[prev]) /\ RLt(long[n], short[n]) THEN "BUY"
          ELSE IF RLe(long[prev], short[prev]) /\ RLt(short[n], long[n]) THEN "SELL"
          ELSE ""

\* a mean reversion that buys above the band and sells below it
MeanRevSignal_Inverted(prices) ==
  IF Len(prices) < Window THEN ""
  ELSE LET ms == meanStd(SubSeq(prices, Len(prices) - Window + 1, Len(prices)))
           d == RSub(ms.mean, R(prices[Len(prices)]))
           out == RLt(RMul(R(KSd * KSd), ms.variance), RMul(d, d))
       IN IF RGt0(d) /\ out THEN "SELL"
          ELSE IF RGt0(RNeg(d)) /\ out THEN "BUY"
          ELSE ""

\* MeanReversion.OnCandle, lines 64-70 and 81: the order side the history
\* asks for, "" for none.  last < mean - k*sd iff mean - last > 0 and
\* (mean - last)^2 > k^2 * variance, k being positive
MeanRevSignal(prices) ==
  IF Len(prices) < Window THEN ""
  ELSE LET ms == meanStd(SubSeq(prices, Len(prices) - Window + 1, Len(prices)))
           d == RSub(ms.mean, R(prices[Len(prices)]))
           out == RLt(RMul(R(KSd * KSd), ms.variance), RMul(d, d))
       IN IF RGt0(d) /\ out THEN "BUY"
          ELSE IF RGt0(RNeg(d)) /\ out THEN "SELL"
          ELSE ""

\* a check that lets a negative quantity through
Suppressed_OnlyZero(qty) == qty = R(0)

\* if qty <= 0 { return }
Suppressed(qty) == RLe0(qty)

\* a history that drops the close of a candle whose order failed
History_DropsOnError(prices, close, entry) ==
  IF entry.err THEN prices ELSE Append(prices, close)

\* the price history after OnCandle: the close was appended on entry,
\* whatever Submit returned later
History(prices, close, entry) == Append(prices, close)

\* the rest of OnCandle once the side is known: size the order, return if
\* the quantity is suppressed, else Submit, which returns an order or an
\* error; the error is logged and OnCandle returns.  The EMA's BUY carries
\* the close as its Price, the other orders carry no price.
Outcomes(kind, side, close, balance) ==
  LET none == [close |-> close, side |-> "", qty |-> R(0), price |-> 0,
               sized |-> FALSE, err |-> FALSE]
  IN IF side = "" THEN {none}
     ELSE IF Suppressed(Size(close, balance))
       THEN {[none EXCEPT !.sized = TRUE, !.qty = Size(close, balance)]}
       ELSE {[close |-> close, side |-> side, qty |-> Size(close, balance),
              price |-> IF kind = "EMA" /\ side = "BUY" THEN close ELSE 0,
              sized |-> TRUE, err |-> e] : e \in BOOLEAN}

\* a crossover whose second test sells whenever the short average was not
\* below the long one
EmaSubmits_LooseSell(prices, balance) ==
  IF Len(prices) < LongP + 2 THEN << >>
  ELSE LET short == ema(prices, ShortP)
           long == ema(prices, LongP)
           n == Len(prices)
           qty == Size(prices[n], balance)
           buy == RLe(short[n - 1], long[n - 1]) /\ RLt(long[n], short[n])
           sell == RLe(long[n - 1], short[n - 1])
       IN IF buy /\ RLe0(qty) THEN << >>
          ELSE (IF buy THEN <<"BUY">> ELSE << >>)
                 \o (IF sell /\ ~RLe0(qty) THEN <<"SELL">> ELSE << >>)

\* EMACrossover.OnCandle, lines 162-192, statement by statement: the sides
\* of the Submit calls one OnCandle makes, in order.  The BUY test and the
\* SELL test are two separate ifs; a quantity <= 0 returns from OnCandle.
EmaSubmits(prices, balance) ==
  IF Len(prices) < LongP + 2 THEN << >>
  ELSE LET short == ema(prices, ShortP)
           long == ema(prices, LongP)
           n == Len(prices)
           qty == Size(prices[n], balance)
           buy == RLe(short[n - 1], long[n - 1]) /\ RLt(long[n], short[n])
           sell == RLe(long[n - 1], short[n - 1]) /\ RLt(short[n], long[n])
       IN IF buy /\ RLe0(qty) THEN << >>
          ELSE (IF buy THEN <<"BUY">> ELSE << >>)
                 \o (IF sell /\ ~RLe0(qty) THEN <<"SELL">> ELSE << >>)

\* MeanReversion.OnCandle, lines 64-92: the sides of the Submit calls one
\* OnCandle makes; the BUY test and the SELL test are an if / else if
MeanRevSubmits(prices, balance) ==
  IF Len(prices) < Window THEN << >>
  ELSE LET ms == meanStd(SubSeq(prices, Len(prices) - Window + 1, Len(prices)))
           d == RSub(ms.mean, R(prices[Len(prices)]))
           out == RLt(RMul(R(KSd * KSd), ms.variance), RMul(d, d))
           qty == Size(prices[Len(prices)], balance)
       IN IF RGt0(d) /\ out THEN (IF RLe0(qty) THEN << >> ELSE <<"BUY">>)
          ELSE IF RGt0(RNeg(d)) /\ out THEN (IF RLe0(qty) THEN << >> ELSE <<"SELL">>)
          ELSE << >>

InitStrategy ==
  /\ stKind = ""
  /\ stPrices = << >>
  /\ stAccountUSD = 0
  /\ stLog = << >>

NewEMACrossover ==
  /\ stKind = ""
  /\ stKind' = "EMA"
  /\ UNCHANGED <<stPrices, stAccountUSD, stLog>>
  /\ UNCHANGED notStrat

NewMeanReversion ==
  /\ stKind = ""
  /\ stKind' = "MeanRev"
  /\ UNCHANGED <<stPrices, stAccountUSD, stLog>>
  /\ UNCHANGED notStrat

\* SetAccountUSD(v), called by main and by Run before the first candle
SetAccountUSD ==
  /\ stKind # ""
  /\ stPrices = << >>
  /\ \E v \in StratBalances : stAccountUSD' = v
  /\ UNCHANGED <<stKind, stPrices, stLog>>
  /\ UNCHANGED notStrat

\* EMACrossover.OnCandle(c)
EmaOnCandle ==
  /\ stKind = "EMA"
  /\ Len(stPrices) < MaxSeries
  /\ \E close \in StratCloses :
       \E entry \in Outcomes("EMA", EmaSignal(Append(stPrices, close)), close, stAccountUSD) :
         /\ stPrices' = History(stPrices, close, entry)
         /\ stLog' = Append(stLog,
                            entry @@ [submits |-> EmaSubmits(Append(stPrices, close),
                                                             stAccountUSD)])
  /\ UNCHANGED <<stKind, stAccountUSD>>
  /\ UNCHANGED notStrat

\* MeanReversion.OnCandle(c)
MeanRevOnCandle ==
  /\ stKind = "MeanRev"
  /\ Len(stPrices) < MaxSeries
  /\ \E close \in StratCloses :
       \E entry \in Outcomes("MeanRev", MeanRevSignal(Append(stPrices, close)), close,
                              stAccountUSD) :
         /\ stPrices' = History(stPrices, close, entry)
         /\ stLog' = Append(stLog,
                            entry @@ [submits |-> MeanRevSubmits(Append(stPrices, close),
                                                                 stAccountUSD)])
  /\ UNCHANGED <<stKind, stAccountUSD>>
  /\ UNCHANGED notStrat

NextStrategy ==
  \/ NewEMACrossover
  \/ NewMeanReversion
  \/ SetAccountUSD
  \/ EmaOnCandle
  \/ MeanRevOnCandle

(***************************************************************************)
(* Part 9: OrderManager.Submit over the mock exchange: the retry loop of   *)
(* Submit around MockExchange.PlaceOrder, with parseSymbol and the balance *)
(* checks.  Submit calls are made one after the other on an OrderManager   *)
(* built without a store (db == nil, the persistence of lines 42-69 is     *)
(* skipped).  Symbols are sequences of characters, upper case and without  *)
(* spaces, so that TrimSpace and ToUpper change nothing.                   *)
(***************************************************************************)
BTCUSD == <<"B", "T", "C", "U", "S", "D">>
BTC_USDT == <<"B", "T", "C", "/", "U", "S", "D", "T">>
XYZ == <<"X", "Y", "Z">>
MockSymbols == {BTCUSD, BTC_USDT, XYZ, << >>}

\* knownQuotes, in the order they are tried
KnownQuotes ==
  << <<"U", "S", "D", "T">>, <<"U", "S", "D", "C">>, <<"B", "T", "C">>,
     <<"E", "T", "H">>, <<"U", "S", "D">>, <<"E", "U", "R">>,
     <<"B", "U", "S", "D">>, <<"S", "O", "L">> >>

HasSuffix(s, q) == Len(s) >= Len(q) /\ SubSeq(s, Len(s) - Len(q) + 1, Len(s)) = q
Contains(s, sep) == \E j \in 1..Len(s) : s[j] = sep
\* strings.SplitN(s, sep, 2) of a string that contains sep
SplitN2(s, sep) ==
  LET at == CHOOSE j \in 1..Len(s) : s[j] = sep /\ \A h \in 1..(j - 1) : s[h] # sep
  IN <<SubSeq(s, 1, at - 1), SubSeq(s, at + 1, Len(s))>>

RECURSIVE SuffixQuote(_, _)
SuffixQuote(sym, j) ==
  IF j > Len(KnownQuotes)
    THEN [base |-> << >>, quote |-> << >>, err |-> "unable to parse symbol"]
  ELSE IF HasSuffix(sym, KnownQuotes[j]) /\ Len(sym) > Len(KnownQuotes[j])
    THEN [base |-> SubSeq(sym, 1, Len(sym) - Len(KnownQuotes[j])),
          quote |-> KnownQuotes[j], err |-> "nil"]
  ELSE SuffixQuote(sym, j + 1)

\* parseSymbol, lines 185-213
parseSymbol(sym) ==
  IF sym = << >> THEN [base |-> << >>, quote |-> << >>, err |-> "empty symbol"]
  ELSE IF Contains(sym, "/")
    THEN [base |-> SplitN2(sym, "/")[1], quote |-> SplitN2(sym, "/")[2], err |-> "nil"]
  ELSE IF Contains(sym, "-")
    THEN [base |-> SplitN2(sym, "-")[1], quote |-> SplitN2(sym, "-")[2], err |-> "nil"]
  ELSE SuffixQuote(sym, 1)

\* m.balances[asset]; a missing key reads as 0
Bal(b, asset) == IF asset \in DOMAIN b THEN b[asset] ELSE 0

\* a BUY and SELL that move the balances before checking them
MockPlaceOrder_MovesFirst(b, o) ==
  IF o.Type # "MARKET" THEN [err |-> "nil", balances |-> b]
  ELSE LET ps == parseSymbol(o.Symbol)
           cost == o.Quantity * o.Price
           moved == IF o.Side = "BUY"
                      THEN MapPut(MapPut(b, ps.quote, Bal(b, ps.quote) - cost),
                                  ps.base, Bal(b, ps.base) + o.Quantity)
                      ELSE MapPut(MapPut(b, ps.base, Bal(b, ps.base) - o.Quantity),
                                  ps.quote, Bal(b, ps.quote) + cost)
       IN IF ps.err # "nil" THEN [err |-> ps.err, balances |-> b]
          ELSE IF o.Side = "BUY" /\ Bal(b, ps.quote) < cost
            THEN [err |-> "insufficient balance", balances |-> moved]
          ELSE IF o.Side = "SELL" /\ Bal(b, ps.base) < o.Quantity
            THEN [err |-> "insufficient balance", balances |-> moved]
          ELSE [err |-> "nil", balances |-> moved]

\* PlaceOrder, lines 66-118, on the balances b: the error returned and the
\* balances afterwards
MockPlaceOrder(b, o) ==
  IF o.Type # "MARKET" THEN [err |-> "nil", balances |-> b]
  ELSE LET ps == parseSymbol(o.Symbol)
           cost == o.Quantity * o.Price
       IN IF ps.err # "nil" THEN [err |-> ps.err, balances |-> b]
          ELSE IF o.Side = "BUY"
            THEN IF Bal(b, ps.quote) < cost
                   THEN [err |-> "insufficient balance", balances |-> b]
                   ELSE [err |-> "nil",
                         balances |-> LET b1 == MapPut(b, ps.quote, Bal(b, ps.quote) - cost)
                                      IN MapPut(b1, ps.base, Bal(b1, ps.base) + o.Quantity)]
          ELSE IF o.Side = "SELL"
            THEN IF Bal(b, ps.base) < o.Quantity
                   THEN [err |-> "insufficient balance", balances |-> b]
                   ELSE [err |-> "nil",
                         balances |-> LET b1 == MapPut(b, ps.base, Bal(b, ps.base) - o.Quantity)
                                      IN MapPut(b1, ps.quote, Bal(b1, ps.quote) + cost)]
          ELSE [err |-> "nil", balances |-> b]

\* the orders submitted: quantity and price in whole units
MockOrders ==
  {[Symbol |-> s, Side |-> sd, Type |-> ty, Quantity |-> qp[1], Price |-> qp[2]] :
     s \in MockSymbols, sd \in {"BUY", "SELL"}, ty \in {"MARKET", "LIMIT"},
     qp \in {<<1, 0>>, <<1, 6000>>, <<2000, 6000>>}}

\* the idempotency key; a whole quantity prints as itself under "%f"
MockKey(o) == <<o.Symbol, o.Side, o.Quantity, o.Type>>

NoMockCall == [pc |-> "idle"]

\* NewMockExchange(bal, db) with SetDefaultBalances, NewOrderManager(exch, nil)
InitMock ==
  /\ mxCall = NoMockCall
  /\ mxBalances = [a \in {<<"U", "S", "D">>, <<"U", "S", "D", "T">>, <<"B", "T", "C">>} |->
                     IF a = <<"U", "S", "D">> THEN MockUSD
                     ELSE IF a = <<"U", "S", "D", "T">> THEN 10000 ELSE 1000]
  /\ mxOrders = {}
  /\ mxPending = << >>
  /\ mxClock = 0
  /\ mxLog = << >>

\* Submit, lines 23-33: the key is known, return the assigned id; else
\* enter the retry loop
MockSubmit ==
  /\ mxCall.pc = "idle"
  /\ Len(mxLog) < MaxMockSubmits
  /\ \E o \in MockOrders :
       IF MockKey(o) \in DOMAIN mxPending
         THEN /\ mxLog' = Append(mxLog, [order |-> o, id |-> mxPending[MockKey(o)],
                                          err |-> "nil", attempts |-> << >>,
                                          sleeps |-> << >>])
              /\ UNCHANGED mxCall
         ELSE /\ mxCall' = [pc |-> "loop", order |-> o, i |-> 0, wait |-> InitialWaitMs,
                            lastErr |-> "nil", attempts |-> << >>, sleeps |-> << >>]
              /\ UNCHANGED mxLog
  /\ UNCHANGED <<mxBalances, mxOrders, mxPending, mxClock>>
  /\ UNCHANGED notMock

\* lines 34-40 and 70: PlaceOrder succeeds; the key is registered and the
\* order returned.  Two placements within a millisecond get the same id.
MockPlaceOk ==
  /\ mxCall.pc = "loop"
  /\ mxCall.i < MaxAttempts
  /\ MockPlaceOrder(mxBalances, mxCall.order).err = "nil"
  /\ \E now \in {mxClock, mxClock + 1} :
       /\ mxClock' = now
       /\ mxOrders' = Upsert(mxOrders, [id |-> <<"mock_", now>>, order |-> mxCall.order])
       /\ mxPending' = MapPut(mxPending, MockKey(mxCall.order), <<"mock_", now>>)
       /\ mxLog' = Append(mxLog,
                          [order |-> mxCall.order, id |-> <<"mock_", now>>, err |-> "nil",
                           attempts |-> Append(mxCall.attempts,
                                               [err |-> "nil", before |-> mxBalances]),
                           sleeps |-> mxCall.sleeps])
  /\ mxBalances' = MockPlaceOrder(mxBalances, mxCall.order).balances
  /\ mxCall' = NoMockCall
  /\ UNCHANGED notMock

\* lines 34-35 and 72-74: PlaceOrder returns an error; lastErr, sleep,
\* wait doubled, next i.  The sleep lets the clock move on.
MockPlaceErr ==
  /\ mxCall.pc = "loop"
  /\ mxCall.i < MaxAttempts
  /\ MockPlaceOrder(mxBalances, mxCall.order).err # "nil"
  /\ mxBalances' = MockPlaceOrder(mxBalances, mxCall.order).balances
  /\ mxCall' = [mxCall EXCEPT
                  !.lastErr = MockPlaceOrder(mxBalances, mxCall.order).err,
                  !.attempts = Append(@, [err |-> MockPlaceOrder(mxBalances, mxCall.order).err,
                                          before |-> mxBalances,
                                          after |-> mxBalances']),
                  !.sleeps = Append(@, mxCall.wait),
                  !.wait = 2 * @,
                  !.i = @ + 1]
  /\ mxClock' = mxClock + 1
  /\ UNCHANGED <<mxOrders, mxPending, mxLog>>
  /\ UNCHANGED notMock

\* line 75: the loop is over, return Order{}, lastErr
MockReturnExhausted ==
  /\ mxCall.pc = "loop"
  /\ mxCall.i >= MaxAttempts
  /\ mxLog' = Append(mxLog, [order |-> mxCall.order, id |-> << >>,
                              err |-> mxCall.lastErr, attempts |-> mxCall.attempts,
                              sleeps |-> mxCall.sleeps])
  /\ mxCall' = NoMockCall
  /\ UNCHANGED <<mxBalances, mxOrders, mxPending, mxClock>>
  /\ UNCHANGED notMock

NextMock ==
  \/ MockSubmit
  \/ MockPlaceOk
  \/ MockPlaceErr
  \/ MockReturnExhausted

(***************************************************************************)
(* Part 10: OrderManager.Submit (part_002 23-75) over the BinanceAdapter:  *)
(* PlaceOrder (binance.go 95-130) and the adapter mutex b.mt.  The order   *)
(* manager has no store (om.db == nil).                                    *)
(***************************************************************************)
\* the orders submitted
BinanceOrders ==
  {[Symbol |-> BTC_USDT, Side |-> sd, Type |-> ty, Quantity |-> 1, Price |-> 6000] :
     sd \in {"BUY", "SELL"}, ty \in {"MARKET", "LIMIT"}}

\* orderId and status in the exchange's reply
BinanceOrderIDs == {7, 8}
BinanceStatuses == {"FILLED", "NEW"}

\* lines 97-108: the form sent with the order
OrderValues(o) ==
  IF o.Type = "MARKET"
    THEN [symbol |-> o.Symbol, side |-> o.Side, type |-> o.Type,
          quoteOrderQty |-> o.Quantity]
    ELSE [symbol |-> o.Symbol, side |-> o.Side, type |-> o.Type,
          quantity |-> o.Quantity, price |-> o.Price]

NoBinanceCall == [pc |-> "idle"]

\* NewBinanceAdapter, NewOrderManager(exch, nil)
InitBinance ==
  /\ bnMt = FALSE
  /\ bnCall = NoBinanceCall
  /\ bnPending = << >>
  /\ bnLog = << >>

\* Submit, lines 23-33: the key is known, return the assigned id; else
\* enter the retry loop
BinanceSubmit ==
  /\ bnCall.pc = "idle"
  /\ Len(bnLog) < MaxBinanceSubmits
  /\ \E o \in BinanceOrders :
       IF MockKey(o) \in DOMAIN bnPending
         THEN /\ bnLog' = Append(bnLog, [order |-> o, id |-> bnPending[MockKey(o)],
                                          err |-> "nil", attempts |-> << >>,
                                          sleeps |-> << >>])
              /\ UNCHANGED bnCall
         ELSE /\ bnCall' = [pc |-> "loop", order |-> o, i |-> 0, wait |-> InitialWaitMs,
                            lastErr |-> "nil", attempts |-> << >>, sleeps |-> << >>]
              /\ UNCHANGED bnLog
  /\ UNCHANGED <<bnMt, bnPending>>
  /\ UNCHANGED notBinance

\* Submit line 35 and PlaceOrder lines 97-108: attempt i calls PlaceOrder,
\* which builds the form and comes to b.mt.Lock()
BinancePlaceOrder ==
  /\ bnCall.pc = "loop"
  /\ bnCall.i < MaxAttempts
  /\ bnCall' = [pc |-> "lock", order |-> bnCall.order, i |-> bnCall.i,
                wait |-> bnCall.wait, lastErr |-> bnCall.lastErr,
                attempts |-> bnCall.attempts, sleeps |-> bnCall.sleeps,
                val |-> OrderValues(bnCall.order)]
  /\ UNCHANGED <<bnMt, bnPending, bnLog>>
  /\ UNCHANGED notBinance

\* line 109: b.mt.Lock() returns once the mutex is free
BinanceLock ==
  /\ bnCall.pc = "lock"
  /\ ~bnMt
  /\ bnMt' = TRUE
  /\ bnCall' = [bnCall EXCEPT !.pc = "post"]
  /\ UNCHANGED <<bnPending, bnLog>>
  /\ UNCHANGED notBinance

\* lines 111-114: privatePOST returns an error (the request failed, or the
\* status is >= 300): return o, err, with b.mt still locked; Submit lines
\* 72-74: lastErr, sleep, wait doubled, next i
BinancePostErr ==
  /\ bnCall.pc = "post"
  /\ bnCall' = [pc |-> "loop", order |-> bnCall.order, i |-> bnCall.i + 1,
                wait |-> 2 * bnCall.wait, lastErr |-> "binance error",
                attempts |-> Append(bnCall.attempts, "binance error"),
                sleeps |-> Append(bnCall.sleeps, bnCall.wait)]
  /\ UNCHANGED <<bnMt, bnPending, bnLog>>
  /\ UNCHANGED notBinance

\* lines 111-124: privatePOST returns a body, b.mt.Unlock(); the body does
\* not decode: return o, err; Submit lines 72-74
BinanceDecodeErr ==
  /\ bnCall.pc = "post"
  /\ bnMt' = FALSE
  /\ bnCall' = [pc |-> "loop", order |-> bnCall.order, i |-> bnCall.i + 1,
                wait |-> 2 * bnCall.wait, lastErr |-> "unmarshal error",
                attempts |-> Append(bnCall.attempts, "unmarshal error"),
                sleeps |-> Append(bnCall.sleeps, bnCall.wait)]
  /\ UNCHANGED <<bnPending, bnLog>>
  /\ UNCHANGED notBinance

\* lines 111-129: privatePOST returns a body, b.mt.Unlock(), the reply is
\* decoded into the order's ID and Filled; Submit lines 36-39 and 70: the key
\* is registered and the order returned
BinancePlaceOk ==
  /\ bnCall.pc = "post"
  /\ bnMt' = FALSE
  /\ \E id \in BinanceOrderIDs, status \in BinanceStatuses :
       /\ bnPending' = MapPut(bnPending, MockKey(bnCall.order), <<"%d", id>>)
       /\ bnLog' = Append(bnLog, [order |-> bnCall.order, id |-> <<"%d", id>>,
                                   filled |-> (status = "FILLED"), err |-> "nil",
                                   attempts |-> Append(bnCall.attempts, "nil"),
                                   sleeps |-> bnCall.sleeps])
  /\ bnCall' = NoBinanceCall
  /\ UNCHANGED notBinance

\* line 75: the loop is over, return Order{}, lastErr
BinanceReturnExhausted ==
  /\ bnCall.pc = "loop"
  /\ bnCall.i >= MaxAttempts
  /\ bnLog' = Append(bnLog, [order |-> bnCall.order, id |-> << >>,
                              err |-> bnCall.lastErr, attempts |-> bnCall.attempts,
                              sleeps |-> bnCall.sleeps])
  /\ bnCall' = NoBinanceCall
  /\ UNCHANGED <<bnMt, bnPending>>
  /\ UNCHANGED notBinance

NextBinance ==
  \/ BinanceSubmit
  \/ BinancePlaceOrder
  \/ BinanceLock
  \/ BinancePostErr
  \/ BinanceDecodeErr
  \/ BinancePlaceOk
  \/ BinanceReturnExhausted

(***************************************************************************)
(* Properties of OrderManager.Submit.                                      *)
(***************************************************************************)
NilErr == <<"nil">>
SaveErrs == {<<"save_order_failed">>, <<"save_trade_failed">>}

\* the call returned, and it returned nil after placing the order itself
SuccessDone(c) == pc[c] = "done" /\ ret[c].err = NilErr /\ placeCalls[c] >= 1

\* the call returned after every PlaceOrder attempt it made had failed
AllFailed(c) == pc[c] = "done" /\ placeCalls[c] >= 1 /\ Len(sleeps[c]) = placeCalls[c]

\* the call returned a persistence error
PersistFailed(c) == pc[c] = "done" /\ ret[c].err \in SaveErrs

RECURSIVE SumPlaceCalls(_, _)
SumPlaceCalls(S, k) ==
  IF S = {} THEN 0
  ELSE LET c == CHOOSE x \in S : TRUE
       IN (IF pc[c] # "idle" /\ Key(ord[c]) = k THEN placeCalls[c] ELSE 0)
          + SumPlaceCalls(S \ {c}, k)

Keys == {Key(o) : o \in Intents}

RECURSIVE Pow2(_)
Pow2(n) == IF n = 0 THEN 1 ELSE 2 * Pow2(n - 1)

\* C1 (sequential calls): once a Submit for a key has returned id X with a nil
\* error, every Submit for that key that begins later returns id X with a nil
\* error and makes no PlaceOrder call.
C1_SequentialIdempotency ==
  \A c \in Calls : pc[c] = "done" =>
    \A x \in prior[c] : x.err = NilErr =>
      /\ ret[c].err = NilErr
      /\ ret[c].order.ID = x.id
      /\ placeCalls[c] = 0

C1_Witness ==
  \E c \in Calls : pc[c] = "done" /\ \E x \in prior[c] : x.err = NilErr

\* C2: with an adapter whose placements all succeed, concurrent Submit calls
\* for one key invoke PlaceOrder at most once in total for that key.
C2_PlaceOrderAtMostOnce ==
  (\A c \in Calls : Len(sleeps[c]) = 0) =>
    \A k \in Keys : SumPlaceCalls(Calls, k) <= 1

\* C3: any two Submit calls for one key that both return nil return the same
\* order id.
C3_SameIdForSameKey ==
  \A c, d \in Calls :
    ( /\ pc[c] = "done" /\ pc[d] = "done"
      /\ ret[c].err = NilErr /\ ret[d].err = NilErr
      /\ Key(ord[c]) = Key(ord[d]) )
    => ret[c].order.ID = ret[d].order.ID

\* C4: for every idempotency key at most one placement ever takes effect on
\* the exchange.
C4_AtMostOneLiveOrder ==
  \A k \in Keys : Cardinality({p \in placed : p.key = k}) <= 1

\* C5 (sequential calls): a Submit whose every attempt fails calls PlaceOrder
\* exactly 5 times and returns Order{} with the error of the last attempt; it
\* leaves no mapping, so a Submit for the key that begins after only such
\* failures places again.
C5_RetryExhaustion ==
  /\ \A c \in Calls : AllFailed(c) =>
       /\ placeCalls[c] = 5
       /\ ret[c] = [order |-> ZeroOrder, err |-> AdapterErr(c, 5)]
  /\ \A d \in Calls :
       (pc[d] = "done" /\ prior[d] # {} /\ \A x \in prior[d] : x.err[1] = "err")
         => placeCalls[d] >= 1

C5_Witness ==
  \E c, d \in Calls :
    /\ AllFailed(c)
    /\ pc[d] = "done" /\ [id |-> ret[c].order.ID, err |-> ret[c].err] \in prior[d]
    /\ \A x \in prior[d] : x.err[1] = "err"
    /\ placeCalls[d] >= 1

\* C6: a Submit whose every attempt fails has slept 100, 200, 400, 800 and
\* 1600 ms, one sleep after each failed attempt, and returns the last error;
\* in between, the n-th sleep of any call is 100 * 2^(n-1) ms.
C6_BackoffSchedule ==
  \A c \in Calls :
    /\ \A n \in 1..Len(sleeps[c]) : sleeps[c][n] = 100 * Pow2(n - 1)
    /\ Len(sleeps[c]) <= placeCalls[c]
    /\ AllFailed(c) =>
         /\ sleeps[c] = <<100, 200, 400, 800, 1600>>
         /\ ret[c].err = lastErr[c]
         /\ lastErr[c] = AdapterErr(c, 5)

C6_Witness == \E c \in Calls : AllFailed(c) /\ Len(sleeps[c]) = 5

C8_PersistenceFailure ==
  /\ \A c \in Calls : PersistFailed(c) =>
       /\ ret[c].order = r[c]
       /\ r[c].ID = OrderID(c)
       /\ [call |-> c, key |-> Key(ord[c]), id |-> r[c].ID] \in placed
       /\ Key(ord[c]) \in DOMAIN pending
       /\ ret[c].err = <<"save_order_failed">> => saveLog[c] = << >>
       /\ ret[c].err = <<"save_trade_failed">> => saveLog[c] = <<"order">>
  /\ \A d \in Calls :
       (pc[d] # "idle" /\ \E x \in prior[d] : x.err \in SaveErrs)
         => (placeCalls[d] = 0 /\ pc[d] = "done" /\ ret[d].err = NilErr)

C8_Witness ==
  \E c, d \in Calls :
    /\ PersistFailed(c)
    /\ pc[d] = "done" /\ [id |-> ret[c].order.ID, err |-> ret[c].err] \in prior[d]

\* C9: the order returned on an idempotency hit equals the order returned by
\* the successful Submit that placed it (id, symbol, side, type, quantity,
\* filled price, filled flag).
C9_HitReturnsAssignedOrder ==
  \A c, d \in Calls :
    ( /\ SuccessDone(c)
      /\ pc[d] = "done" /\ placeCalls[d] = 0
      /\ Key(ord[d]) = Key(ord[c])
      /\ [id |-> ret[c].order.ID, err |-> ret[c].err] \in prior[d] )
    => ret[d].order = ret[c].order

(***************************************************************************)
(* Properties of the Engine.                                               *)
(***************************************************************************)
\* some Stop called after Start k was launched has returned
StopReturnedFor(k) == \E j \in Stops : stPc[j] = "returned" /\ k \in stopSaw[j]

\* C10: after Stop has returned, every dispatch worker of a Start that was
\* launched before the Stop has exited, and no such worker calls OnCandle.
C10_StopQuiesces ==
  /\ [](\A k \in Starts, s \in Strategies :
          StopReturnedFor(k) => wk[k][s] \notin {"running", "in_candle"})
  /\ [][\A k \in Starts, s \in Strategies :
          StopReturnedFor(k) => got'[k][s] = got[k][s]]_vars

\* C11: Stop calls no OnStop while a dispatch worker of a Start launched before
\* it is still running or inside OnCandle, and once a strategy's OnStop was
\* called no worker of such a Start calls its OnCandle.
C11_JoinBeforeTeardown ==
  /\ [][\A j \in Stops :
          (stPc[j] = "hooks" /\ stPc'[j] = "returned")
            => \A k \in stopSaw[j], s \in Strategies :
                 wk[k][s] \notin {"running", "in_candle"}]_vars
  /\ [][\A j \in Stops, s \in Strategies :
          onStop[s] > 0 => \A k \in stopSaw[j] : got'[k][s] = got[k][s]]_vars

\* C12: once Stop was called after a Start was launched, every dispatch worker
\* of that Start that is running eventually returns, and the Stop call
\* eventually returns.
C12_ShutdownLiveness ==
  /\ \A j \in Stops :
       (stPc[j] # "idle" /\ stopSaw[j] # {}) ~> (stPc[j] = "returned")
  /\ \A j \in Stops, k \in Starts, s \in Strategies :
       (stPc[j] # "idle" /\ k \in stopSaw[j] /\ wk[k][s] \in {"running", "in_candle"})
         ~> (wk[k][s] = "exited")

\* C13: Start returns only after the context it waits on was cancelled, closed
\* channels and exited workers do not let it return, and once that context is
\* cancelled its return is possible whatever the workers are doing.
C13_StartBlocksUntilCancel ==
  \A k \in Starts :
    /\ ePc[k] = "returned" => ctxDone[waitCtx[k]]
    /\ ePc[k] = "wait" => ((ENABLED StartReturn(k)) <=> ctxDone[waitCtx[k]])

\* Start has returned while one of its workers is still running
C13_Witness ==
  \E k \in Starts, s \in Strategies :
    ePc[k] = "returned" /\ wk[k][s] \in {"running", "in_candle"}

\* Start is still blocked although all its channels are closed and all its
\* workers have exited
C13_BlockedAfterFeedEnd ==
  \E k \in Starts :
    /\ ePc[k] = "wait" /\ ~ctxDone[waitCtx[k]]
    /\ \A s \in Strategies : wk[k][s] = "exited" /\ chClosed[k][s]

\* C14: a strategy whose subscription failed has no worker and gets no
\* OnCandle from that Start, every strategy whose subscription succeeded has a
\* worker, and the loop of Start visits every strategy.
C14_SubscriptionFailureIsolation ==
  \A k \in Starts, s \in Strategies :
    (ePc[k] \in {"loop", "wait", "returned"} /\ sIdx[k] > s)
      => /\ onStart[s] >= 1
         /\ IF subCtx[k][s] = 0
              THEN wk[k][s] = "none" /\ got[k][s] = 0
              ELSE wk[k][s] # "none"

\* the first subscription failed, the second strategy received a candle
C14_Witness ==
  \E k \in Starts :
    /\ ePc[k] = "wait"
    /\ subCtx[k][1] = 0
    /\ subCtx[k][2] # 0 /\ got[k][2] >= 1

\* C15: once the context is cancelled, the polling goroutine of every feed
\* eventually returns and closes its channel.
C15_ProducersTerminate ==
  \A s \in Strategies : fCtxDone ~> (fPc[s] = "closed")

\* the orders filled so far
FillIdx == 1..Len(btFills)
FillQty(n) == R(btFills[n].order.Quantity)
FillPrice(n) == R(btFills[n].order.FilledPrice)

\* C16: an order submitted while the loop of Run is at candle c is filled at
\* the close of c.
C16_FillAtCurrentClose ==
  \A n \in FillIdx :
    btFills[n].at >= 1 => btFills[n].order.FilledPrice = btCandles[btFills[n].at].Close

\* C17 as stated: a BUY of q at p takes q*p from the balance, adds q to the
\* quantity and makes the average price (old_avg*old_qty + q*p)/(old_qty+q),
\* whatever old_qty+q is.
C17_BuyFillAsStated ==
  \A n \in FillIdx :
    LET f == btFills[n]
        q == FillQty(n)
        p == FillPrice(n)
    IN f.order.Side = "BUY"
         => /\ f.post.balance = RSub(f.pre.balance, RMul(q, p))
            /\ f.post.position.Quantity = RAdd(f.pre.position.Quantity, q)
            /\ RMul(f.post.position.AvgPrice, RAdd(f.pre.position.Quantity, q))
                 = RAdd(RMul(f.pre.position.AvgPrice, f.pre.position.Quantity), RMul(q, p))

\* C17: a BUY of q at p takes q*p from the balance and adds q to the quantity;
\* the average price becomes (old_avg*old_qty + q*p)/(old_qty+q) when
\* old_qty+q > 0 and is left as it was otherwise.
C17_BuyFill ==
  \A n \in FillIdx :
    LET f == btFills[n]
        q == FillQty(n)
        p == FillPrice(n)
        newQty == RAdd(f.pre.position.Quantity, q)
    IN f.order.Side = "BUY"
         => /\ f.post.balance = RSub(f.pre.balance, RMul(q, p))
            /\ f.post.position.Quantity = newQty
            /\ f.post.position.AvgPrice =
                 IF RGt0(newQty)
                   THEN RDiv(RAdd(RMul(f.pre.position.AvgPrice, f.pre.position.Quantity),
                                  RMul(q, p)), newQty)
                   ELSE f.pre.position.AvgPrice

\* a BUY added to an open position at another price: the average price is
\* neither the old one nor the fill price
C17_Witness ==
  \E n \in FillIdx :
    /\ btFills[n].order.Side = "BUY"
    /\ RGt0(btFills[n].pre.position.Quantity)
    /\ btFills[n].post.position.AvgPrice
         \notin {btFills[n].pre.position.AvgPrice, FillPrice(n)}

\* C18: a SELL of q at p realizes (p - avg)*q, adds q*p + realized to the
\* balance, takes q from the quantity, and resets the average price to 0 when
\* the resulting quantity is <= 0.
C18_SellFill ==
  \A n \in FillIdx :
    LET f == btFills[n]
        q == FillQty(n)
        p == FillPrice(n)
        realized == RMul(RSub(p, f.pre.position.AvgPrice), q)
    IN f.order.Side = "SELL"
         => /\ f.post.balance = RAdd(f.pre.balance, RAdd(RMul(q, p), realized))
            /\ f.post.position.Quantity = RSub(f.pre.position.Quantity, q)
            /\ RLe0(f.post.position.Quantity) => f.post.position.AvgPrice = R(0)

\* a SELL that closes an open position at a price other than its average
C18_Witness ==
  \E n \in FillIdx :
    /\ btFills[n].order.Side = "SELL"
    /\ RGt0(btFills[n].pre.position.Quantity)
    /\ btFills[n].pre.position.AvgPrice # FillPrice(n)
    /\ RLe0(btFills[n].post.position.Quantity)

\* C19: from a flat position and balance B, a BUY of q at p1 followed by a
\* SELL of q at p2 leaves balance B - q*p1 + q*p2 + (p2 - p1)*q, quantity 0
\* and average price 0; B = 1000, q = 1, p1 = 100, p2 = 110 gives 1020.
C19_RoundTrip ==
  \A n \in FillIdx :
    n + 1 \in FillIdx =>
      LET b == btFills[n]
          s == btFills[n + 1]
          q == FillQty(n)
          p1 == FillPrice(n)
          p2 == FillPrice(n + 1)
          B == b.pre.balance
      IN (/\ b.order.Side = "BUY" /\ s.order.Side = "SELL"
          /\ b.pre.position = ZeroPosition
          /\ s.order.Quantity = b.order.Quantity)
           => /\ s.post.balance
                   = RAdd(RAdd(RSub(B, RMul(q, p1)), RMul(q, p2)), RMul(RSub(p2, p1), q))
              /\ s.post.position = ZeroPosition
              /\ (B = R(1000) /\ q = R(1) /\ p1 = R(100) /\ p2 = R(110))
                   => s.post.balance = R(1020)

\* the round trip of the example has been made
C19_Witness ==
  \E n \in FillIdx :
    /\ n + 1 \in FillIdx
    /\ btFills[n].order.Side = "BUY" /\ btFills[n + 1].order.Side = "SELL"
    /\ btFills[n].pre = [balance |-> R(1000), position |-> ZeroPosition]
    /\ btFills[n].order.Quantity = 1 /\ btFills[n + 1].order.Quantity = 1
    /\ btFills[n].order.FilledPrice = 100 /\ btFills[n + 1].order.FilledPrice = 110
    /\ btFills[n + 1].post.balance = R(1020)

\* the ledger once the loop of Run is done with candle n: the result of the
\* last fill made at a candle up to n
LedgerAfter(n) ==
  LET S == {m \in FillIdx : btFills[m].at <= n}
  IN IF S = {}
       THEN [balance |-> R(BtInitialUSD), position |-> ZeroPosition]
       ELSE btFills[CHOOSE m \in S : \A x \in S : x <= m].post

\* C20: the stats Run returns have one equity sample per candle, sample n
\* being balance + (close - avg_price)*quantity after candle n, and
\* FinalEquity is the last sample.
C20_EquityCurve ==
  btPc = "done" =>
    /\ Len(btStats.EquityCurve) = Len(btCandles)
    /\ \A n \in 1..Len(btCandles) :
         btStats.EquityCurve[n] =
           RAdd(LedgerAfter(n).balance,
                RMul(RSub(R(btCandles[n].Close), LedgerAfter(n).position.AvgPrice),
                     LedgerAfter(n).position.Quantity))
    /\ btStats.FinalEquity = btStats.EquityCurve[Len(btStats.EquityCurve)]

\* Run returned after two candles, with an order filled at the first one and
\* two different samples
C20_Witness ==
  /\ btPc = "done"
  /\ Len(btCandles) = 2
  /\ \E n \in FillIdx : btFills[n].at = 1
  /\ btStats.EquityCurve[1] # btStats.EquityCurve[2]

(***************************************************************************)
(* Properties of the replay protocol of Run.                               *)
(***************************************************************************)
\* the calls of hook h made on strategy s, in order
RpCallsOf(h, s) == SelectSeq(rpCalls, LAMBDA e : e[1] = h /\ e[2] = s)
\* the candles strategy s was handed, in order
RpDelivered(s) ==
  [n \in 1..Len(RpCallsOf("OnCandle", s)) |-> RpCallsOf("OnCandle", s)[n][3]]

\* C21: a finished Run has set each strategy's account balance and called
\* OnStart before the first OnCandle, has handed each strategy every input
\* candle exactly once in ascending time order, and has called OnStop only
\* after the last OnCandle.
C21_ReplayProtocol ==
  rpPc = "done" =>
    \A s \in Strategies :
      /\ RpDelivered(s) = rpCandles
      /\ \A a, b \in 1..Len(RpDelivered(s)) :
            a < b => RpDelivered(s)[a].Time <= RpDelivered(s)[b].Time
      /\ Len(RpCallsOf("SetAccountUSD", s)) = 1
      /\ Len(RpCallsOf("OnStart", s)) = 1
      /\ Len(RpCallsOf("OnStop", s)) = 1
      /\ \A a, b \in 1..Len(rpCalls) :
            (rpCalls[a][2] = s /\ rpCalls[b][2] = s /\ rpCalls[b][1] = "OnCandle")
              => /\ rpCalls[a][1] \in {"SetAccountUSD", "OnStart"} => a < b
                 /\ rpCalls[a][1] = "OnStop" => b < a

\* the same protocol for the Run of the ledger Backtester (Part 4), which
\* hands the strategy b.candles directly
C21_LedgerReplayProtocol ==
  btPc = "done" =>
    /\ btCalls[1] = <<"SetAccountUSD", R(BtInitialUSD)>>
    /\ btCalls[2] = <<"OnStart">>
    /\ btCalls[Len(btCalls)] = <<"OnStop">>
    /\ Len(btCalls) = Len(btCandles) + 3
    /\ \A n \in 1..Len(btCandles) : btCalls[n + 2] = <<"OnCandle", btCandles[n]>>
    /\ \A a, b \in 1..Len(btCandles) : a < b => btCandles[a].Time <= btCandles[b].Time


\* C22: every fill of a run is persisted as an order record and a trade
\* record of its own: when no save failed, after n fills the store holds n
\* order records and n trade records, none replaced by a later fill.
C22_FillRecords ==
  (\A n \in FillIdx : btFills[n].saved.order /\ btFills[n].saved.trade)
    => /\ Cardinality(btDbOrders) = Len(btFills)
       /\ Cardinality(btDbTrades) = Len(btFills)
       /\ \A n \in FillIdx :
            /\ \E x \in btDbOrders :
                 /\ x.id = btFills[n].order.ID
                 /\ x.side = btFills[n].order.Side
                 /\ x.quantity = btFills[n].order.Quantity
            /\ \E x \in btDbTrades : x.order_id = btFills[n].order.ID

\* C23: OrderManager.Submit over an adapter that always succeeds and
\* Backtester.Submit, given the same sequence of order intents, agree call
\* by call on whether the call created a new order and fill or resolved to
\* an order assigned before, repeated (symbol, side, quantity, type) included.
C23_SubmitEquivalence ==
  \A n \in 1..Len(cmpLive) :
    LET btNew == Len(btFills) >= n
        btSame == {m \in 1..(n - 1) : btFills[m].order.ID = btFills[n].order.ID}
        liveSame == {m \in 1..(n - 1) : cmpLive[m].order.ID = cmpLive[n].order.ID}
    IN /\ cmpLive[n].placed = btNew
       /\ liveSame = btSame

(***************************************************************************)
(* Properties of FixedPercentRisk.Size.                                    *)
(***************************************************************************)
\* balance*percent/price of the last call in units of 10^-8, exactly
RkExact == RDiv(RMul(R(rkCall.balance * RiskPercent[1]), R(QtyScale \div RiskPercent[2])),
                R(rkCall.price))
\* the result of the last call in units of 10^-8
RkUnits == rkCall.qty[1] * (QtyScale \div rkCall.qty[2])

\* C24 as stated: Size is 0 when price <= 0; otherwise the result is
\* balance*percent/price cut to 8 decimals, never above the exact quotient,
\* less than 10^-8 away from it, and rounded toward zero, for every balance.
C24_SizeTowardZero ==
  rkCall # NoSize =>
    IF rkCall.price <= 0 THEN rkCall.qty = R(0)
    ELSE /\ QtyScale % rkCall.qty[2] = 0
         /\ RkUnits * RkExact[2] <= RkExact[1]
         /\ RkExact[1] - RkUnits * RkExact[2] < RkExact[2]
         /\ Abs(RkUnits) * RkExact[2] <= Abs(RkExact[1])

\* C24 amended: Size is 0 when price <= 0; otherwise the result is the
\* floor of balance*percent/price at 8 decimals: a multiple of 10^-8, never
\* above the exact quotient and less than 10^-8 below it.  It is rounded
\* toward zero when the balance is not negative; for a negative balance it
\* is the multiple of 10^-8 at or below the quotient, away from zero.
C24_SizeFloor ==
  rkCall # NoSize =>
    IF rkCall.price <= 0 THEN rkCall.qty = R(0)
    ELSE /\ QtyScale % rkCall.qty[2] = 0
         /\ RkUnits * RkExact[2] <= RkExact[1]
         /\ RkExact[1] - RkUnits * RkExact[2] < RkExact[2]
         /\ rkCall.balance >= 0 =>
              /\ RkUnits >= 0
              /\ Abs(RkUnits) * RkExact[2] <= Abs(RkExact[1])
         /\ rkCall.balance < 0 => Abs(RkUnits) * RkExact[2] >= Abs(RkExact[1])

\* a call with a negative balance whose quotient is not a multiple of 10^-8
C24_Witness ==
  /\ rkCall # NoSize
  /\ rkCall.price > 0
  /\ rkCall.balance < 0
  /\ RkExact[2] # 1
  /\ Abs(RkUnits) * RkExact[2] > Abs(RkExact[1])

(***************************************************************************)
(* Properties of the strategies.                                           *)
(***************************************************************************)
\* the OnCandle calls so far that gave an order to Submit
Submitted == {n \in 1..Len(stLog) : stLog[n].side # ""}

\* C25: a sized quantity <= 0 suppresses the order: no Submit is made in an
\* OnCandle call whose RiskSizer result is <= 0, and every order given to
\* Submit has quantity > 0.
C25_NoOrderWithoutQuantity ==
  \A n \in 1..Len(stLog) :
    /\ (stLog[n].sized /\ stLog[n].qty[1] <= 0) => stLog[n].side = ""
    /\ stLog[n].side # "" => stLog[n].qty[1] > 0

\* a mean reversion has had a signal suppressed by a negative quantity
\* and one by a quantity of 0
C25_Witness ==
  /\ stKind = "MeanRev"
  /\ \E n \in 1..Len(stLog) :
       stLog[n].sized /\ stLog[n].qty[1] < 0 /\ stLog[n].side = ""
  /\ \E n \in 1..Len(stLog) :
       stLog[n].sized /\ stLog[n].qty[1] = 0 /\ stLog[n].side = ""

\* C26: an error returned by Submit does not abort the strategy: every
\* OnCandle call returns with the candle's close in the price history, the
\* calls whose Submit failed included, so that the candles after a failure
\* are processed on the full history.
C26_ErrorsDoNotAbort ==
  /\ Len(stPrices) = Len(stLog)
  /\ \A n \in 1..Len(stLog) : stPrices[n] = stLog[n].close

\* after a failed Submit a later candle produced another order
C26_Witness ==
  \E m, n \in 1..Len(stLog) :
    /\ m < n
    /\ stLog[m].err
    /\ stLog[n].side # ""
    /\ ~stLog[n].err

\* the candles at which the short EMA goes from <= the long EMA to above it
Crossings ==
  LET short == ema(stPrices, ShortP)
      long == ema(stPrices, LongP)
  IN {j \in 2..Len(stPrices) :
        RLe(short[j - 1], long[j - 1]) /\ RLt(long[j], short[j])}
Buys == {n \in 1..Len(stLog) : stLog[n].side = "BUY"}

\* C27 as stated: on any price series whose short EMA crosses from <= the
\* long EMA to above it exactly once, the EMA strategy submits exactly one
\* BUY, at the crossing candle, and none earlier.
C27_OneBuyAtAnyCrossing ==
  (stKind = "EMA" /\ Cardinality(Crossings) = 1) => Buys = Crossings

\* C27 amended: on a price series whose short EMA crosses from <= the long
\* EMA to above it exactly once, at a candle that is at least the
\* (long_period+2)-th and for whose close the sized quantity is positive,
\* the EMA strategy submits exactly one BUY, at the crossing candle.
C27_OneBuyAtCrossing ==
  (/\ stKind = "EMA"
   /\ Cardinality(Crossings) = 1
   /\ \A m \in Crossings :
        m >= LongP + 2 /\ RGt0(Size(stPrices[m], stAccountUSD)))
    => Buys = Crossings

\* a series with one crossing, late enough, and candles after it
C27_Witness ==
  /\ stKind = "EMA"
  /\ Cardinality(Crossings) = 1
  /\ \A m \in Crossings :
       m >= LongP + 2 /\ m < Len(stPrices) /\ RGt0(Size(stPrices[m], stAccountUSD))
  /\ Buys = Crossings

\* `window` equal closes followed by one close more than k standard
\* deviations below the mean of the window it ends
DropAfterConstant ==
  /\ stKind = "MeanRev"
  /\ Len(stPrices) = Window + 1
  /\ \A j \in 1..Window : stPrices[j] = stPrices[1]
  /\ LET ms == meanStd(SubSeq(stPrices, 2, Window + 1))
         d == RSub(ms.mean, R(stPrices[Window + 1]))
     IN RGt0(d) /\ RLt(RMul(R(KSd * KSd), ms.variance), RMul(d, d))

\* C28 as stated: given `window` constant closes followed by one close more
\* than k standard deviations below the mean, the mean reversion submits
\* exactly one order, a BUY on the last candle, and none on the constant
\* candles.
C28_BuyOnAnyDrop ==
  DropAfterConstant => (Submitted = {Window + 1} /\ Buys = {Window + 1})

\* C28 amended: the same, for a last close for which the sized quantity is
\* positive.
C28_BuyOnDrop ==
  (DropAfterConstant /\ RGt0(Size(stPrices[Window + 1], stAccountUSD)))
    => (Submitted = {Window + 1} /\ Buys = {Window + 1})

C28_Witness ==
  /\ DropAfterConstant
  /\ RGt0(Size(stPrices[Window + 1], stAccountUSD))
  /\ Buys = {Window + 1}

(***************************************************************************)
(* Properties of Submit over the mock exchange.                            *)
(***************************************************************************)
\* the Submit calls that returned and whose first PlaceOrder failed with e
FailedWith(e) ==
  {n \in 1..Len(mxLog) : Len(mxLog[n].attempts) > 0 /\ mxLog[n].attempts[1].err = e}
ParseErrors == {"empty symbol", "unable to parse symbol"}

\* C29: a Submit whose order's symbol cannot be parsed returns the error
\* after a single attempt, without a backoff sleep, and without the order
\* having reached PlaceOrder more than that once.
C29_ParseErrorFailsFast ==
  \A e \in ParseErrors : \A n \in FailedWith(e) :
    /\ mxLog[n].err = e
    /\ Len(mxLog[n].attempts) <= 1
    /\ mxLog[n].sleeps = << >>

\* C30: a Submit whose PlaceOrder is rejected for insufficient balance is
\* retried like any other error: 5 attempts, sleeps of 100, 200, 400, 800
\* and 1600 ms, the rejection returned; and no rejected attempt, whatever
\* its error, changes the balances of the exchange.
C30_RejectionRetried ==
  /\ \A n \in FailedWith("insufficient balance") :
       /\ Len(mxLog[n].attempts) = 5
       /\ mxLog[n].sleeps = <<100, 200, 400, 800, 1600>>
       /\ mxLog[n].err = "insufficient balance"
       /\ mxLog[n].id = << >>
  /\ \A n \in 1..Len(mxLog) : \A a \in 1..Len(mxLog[n].attempts) :
       mxLog[n].attempts[a].err # "nil"
         => mxLog[n].attempts[a].after = mxLog[n].attempts[a].before
  /\ \A n \in FailedWith("insufficient balance"), m \in 1..Len(mxLog) :
       \A e \in ParseErrors :
         m \in FailedWith(e) => /\ Len(mxLog[m].attempts) = Len(mxLog[n].attempts)
                                 /\ mxLog[m].sleeps = mxLog[n].sleeps

\* a rejected BUY and a rejected SELL have both been retried to exhaustion
C30_Witness ==
  /\ \E n \in FailedWith("insufficient balance") : mxLog[n].order.Side = "BUY"
  /\ \E n \in FailedWith("insufficient balance") : mxLog[n].order.Side = "SELL"

\* C32: warm-up.  The EMA crossover submits no order in an OnCandle call
\* that leaves fewer than long_period+2 closes in its history, the mean
\* reversion none in a call that leaves fewer than `window`; the closes of
\* those calls are in the history all the same.
C32_WarmUp ==
  \A n \in 1..Len(stLog) :
    (n < (IF stKind = "EMA" THEN LongP + 2 ELSE Window))
      => /\ stLog[n].side = ""
         /\ stLog[n].submits = << >>
         /\ Len(stPrices) >= n
         /\ stPrices[n] = stLog[n].close

\* an EMA crossover whose averages crossed upward during the warm-up with a
\* positive quantity at hand, and that ordered on the first candle after it
C32_Witness ==
  /\ stKind = "EMA"
  /\ stAccountUSD > 0
  /\ Len(stLog) >= LongP + 2
  /\ \E j \in Crossings : j < LongP + 2 /\ stPrices[j] > 0
  /\ stLog[LongP + 2].side # ""

\* C33: one OnCandle call of either strategy makes at most one Submit
\* call, never a BUY and a SELL for the same candle.
C33_OneOrderPerCandle ==
  \A n \in 1..Len(stLog) :
    /\ Len(stLog[n].submits) <= 1
    /\ stLog[n].submits = IF stLog[n].side = "" THEN << >> ELSE <<stLog[n].side>>

\* an EMA crossover has submitted a BUY on one candle and a SELL on another
C33_Witness ==
  /\ stKind = "EMA"
  /\ \E m, n \in 1..Len(stLog) :
       stLog[m].submits = <<"BUY">> /\ stLog[n].submits = <<"SELL">>

\* C35: a SELL fill that leaves the position quantity > 0 leaves the
\* average price unchanged; a fill that changes the average price is a BUY,
\* or a SELL that brings the quantity to <= 0 and sets the average to 0.
C35_AvgPriceFrame ==
  \A n \in FillIdx :
    LET f == btFills[n]
    IN /\ (f.order.Side = "SELL" /\ RGt0(f.post.position.Quantity))
            => f.post.position.AvgPrice = f.pre.position.AvgPrice
       /\ f.post.position.AvgPrice # f.pre.position.AvgPrice
            => \/ f.order.Side = "BUY"
               \/ /\ f.order.Side = "SELL"
                  /\ RLe0(f.post.position.Quantity)
                  /\ f.post.position.AvgPrice = R(0)

\* a SELL of part of a long position at a price other than its average
C35_Witness ==
  \E n \in FillIdx :
    /\ btFills[n].order.Side = "SELL"
    /\ RGt0(btFills[n].post.position.Quantity)
    /\ RGt0(btFills[n].pre.position.AvgPrice)
    /\ FillPrice(n) # btFills[n].pre.position.AvgPrice

\* C38: after any sequence of BUY and SELL fills of positive quantity from
\* a flat position, a position quantity <= 0 has average price 0.
C38_FlatHasNoAverage ==
  /\ RLe0(btLedger.position.Quantity) => btLedger.position.AvgPrice = R(0)
  /\ \A n \in FillIdx :
       RLe0(btFills[n].post.position.Quantity) => btFills[n].post.position.AvgPrice = R(0)

\* a long position was sold into a short one, and a short one bought back
\* to flat
C38_Witness ==
  /\ \E n \in FillIdx :
       /\ btFills[n].order.Side = "SELL"
       /\ RGt0(btFills[n].pre.position.Quantity)
       /\ ~RLe0(RNeg(btFills[n].post.position.Quantity))
  /\ \E n \in FillIdx :
       /\ btFills[n].order.Side = "BUY"
       /\ ~RLe0(RNeg(btFills[n].pre.position.Quantity))
       /\ RLe0(btFills[n].post.position.Quantity)

\* C39: two distinct successful placements on the mock exchange never get
\* the same order id.
C39_MockIdsUnique ==
  \A m, n \in 1..Len(mxLog) :
    (m # n /\ mxLog[m].err = "nil" /\ mxLog[n].err = "nil"
         /\ Len(mxLog[m].attempts) > 0 /\ Len(mxLog[n].attempts) > 0)
      => mxLog[m].id # mxLog[n].id

\* C40: Run returns a stats result for every candle sequence, the empty one
\* included: a run that has left its loop has returned, it has not panicked.
C40_RunReturnsStats ==
  btPc \notin {"none", "built", "loop"} => btPc = "done"

\* C34: a backtest execution persists exactly one run record: once Run has
\* returned, table runs holds one record, that of this run with its final
\* equity.
C34_RunRecord ==
  btPc = "done" => btDbRuns = {[id |-> btRunID, final |-> btStats.FinalEquity]}

\* C36: hook lifecycle.  OnStop is never called on a strategy that was not
\* started, nor twice for one start: at every moment a strategy has had at
\* most as many OnStop calls as OnStart calls.
C36_HookLifecycle ==
  \A s \in Strategies : onStop[s] <= onStart[s]

\* C37: BinanceAdapter.PlaceOrder releases the adapter mutex on every return
\* path: whenever no PlaceOrder call is between its Lock and its return, the
\* mutex is free, so the next attempt can take it.
C37_MutexReleased ==
  bnCall.pc # "post" => ~bnMt

\* C31: within one subscription stream the candles handed to a strategy's
\* OnCandle are non-decreasing in time: no candle is handed over after one
\* that is later in time.
C31_CandleOrder ==
  \A s \in Strategies : Len(fSeen[s]) = 2 => fSeen[s][1] <= fSeen[s][2]

Init == InitOM /\ InitEngine /\ InitFeed /\ InitBt /\ InitReplay /\ InitCompare /\ InitRisk /\ InitStrategy
        /\ InitMock /\ InitBinance

SpecEngine == Init /\ [][NextEngine]_vars

(***************************************************************************)
(* Scheduling of the engine's goroutines.  Every goroutine that can take a *)
(* step eventually takes one, each OnCandle call returns, and a select     *)
(* whose cancellation case is ready again and again eventually takes it    *)
(* (Go chooses among the ready cases at random).  The goroutine of a feed   *)
(* goes on as well: it sends while the channel has room, and once a reply  *)
(* is sent it either ends or polls again.  Nothing is assumed of the       *)
(* callers (whether Start, Stop or the parent's cancel is ever called).    *)
(***************************************************************************)
FairEngine ==
  /\ \A k \in Starts :
       /\ WF_vars(StartWithCancel(k))
       /\ WF_vars(StartLock(k))
       /\ WF_vars(StartSubscribe(k) \/ StartSubscribeFail(k))
       /\ WF_vars(StartStarted(k))
       /\ WF_vars(StartReturn(k))
       /\ \A s \in Strategies :
            /\ WF_vars(ProducerSend(k, s) \/ ProducerCancelled(k, s))
            /\ SF_vars(ProducerCancelled(k, s))
            /\ WF_vars(ProducerFinish(k, s) \/ ProducerPollAgain(k, s))
            /\ WF_vars(WorkerCandleDone(k, s))
            /\ WF_vars(WorkerRecv(k, s) \/ WorkerChanClosed(k, s) \/ WorkerCancelled(k, s))
            /\ SF_vars(WorkerCancelled(k, s))
  /\ \A j \in Stops : WF_vars(StopWait(j)) /\ WF_vars(StopHooks(j))

SpecEngineFair == Init /\ [][NextEngine]_vars /\ FairEngine

SpecFeed == Init /\ [][NextFeed]_vars /\ FairFeed

SpecBacktest == Init /\ [][NextBacktest]_vars

SpecFill == Init /\ [][NextFill]_vars

SpecReplay == Init /\ [][NextReplay]_vars

SpecCompare == Init /\ [][NextCompare]_vars

SpecRisk == Init /\ [][NextRisk]_vars

SpecStrategy == Init /\ [][NextStrategy]_vars

SpecMock == Init /\ [][NextMock]_vars

SpecBinance == Init /\ [][NextBinance]_vars

SpecOM == Init /\ [][NextOM]_vars

SpecOMSeq == Init /\ [][NextOMSeq]_vars

Next == NextOM \/ NextEngine \/ NextFeed \/ NextBacktest \/ NextFill \/ NextReplay \/ NextCompare \/ NextRisk
          \/ NextStrategy \/ NextMock \/ NextBinance

Spec == Init /\ [][Next]_vars

====
